---- MODULE Spec2Model ----
(***************************************************************************)
(* A model of hdf2mic (HDF5 microstructure -> MICRESS input converter):    *)
(* the cell-data builder of the Reader (Reader.groups_celldata setter),    *)
(* the ASCII VTK serializer (VtkWriter.write / _write_array), the          *)
(* driving-file tag engine (DriWriter.write / _replace), the setters of    *)
(* Reader.read, the run of main over its writers, and the conversion of    *)
(* Euler angles of rotMat (rotate) at multiples of a quarter turn.         *)
(*                                                                         *)
(* Python strings are sequences of one-character strings, so that          *)
(* str.replace, the `in` test, concatenation and the lexicographic order   *)
(* of Python 2 byte strings are computed as the interpreter computes them. *)
(***************************************************************************)
EXTENDS Integers, Sequences, FiniteSets, TLC

VARIABLES
    values,        \* Reader: the six lists handed to the groups_celldata setter
    celldata,      \* Data._celldata: the list of tuples (<<>> until it is set)
    err,           \* the exception that ended the run ("none" while there is none)
    pc,            \* position of the run in the script
    vtk_file,      \* content of the VTK output file: a sequence of lines
    header_field,  \* VtkWriter.write: its local header_field
    vi,            \* VtkWriter.write: index of the loop over data.celldata
    gi,            \* VtkWriter.write: index of the loop over field_dataNames
    ti,            \* VtkWriter.write: index of the loop over one FIELD's tuples
    columns,       \* VtkWriterSettings.columns
    arr,           \* the arguments of a call of VtkWriter._write_array
    template,      \* DriWriter.template
    tpl_in,        \* the driving template input file: the pieces of its text
    dri_file,      \* content of the driving output file
    f_vtk,         \* DriWriter.write: its argument f_vtk ("" when not configured)
    f_txt,         \* DriWriter.write: its argument f_txt ("" when not configured)
    vtk_exists,    \* os.path.isfile(f_vtk)
    txt_exists,    \* os.path.isfile(f_txt)
    di,            \* DriWriter.write: index of the loop over data.celldata
    dim,           \* Data.dim
    dimensions,    \* Data.dimensions (point counts)
    spacing,       \* Data.spacing
    origin,        \* Data.origin
    celldata_size, \* Data.celldata_size
    makePathsAbsolute,  \* DriWriterSettings.makePathsAbsolute
    args,          \* the ArgMap of the run: what Reader.read and main read of
                   \* it, and whether the output files are on disk before the run
    todo,          \* main: the components still to run
    angles,        \* Data.angles: the shape of the array (None: isArray FALSE)
    phases,        \* Data.phases: the shape of the array (None: isArray FALSE)
    grain_count,   \* Data.grain_count (None: -1)
    time,          \* Data.time in tenths (None: -1)
    txt_file,      \* content of the TXT output file: a sequence of lines
    queried,       \* Reader.dset: the paths handed to self._f.get, in order
    orientation,   \* the triple of Euler angles a conversion starts from
    eulerDegree,   \* rotate: its argument eulerDegree, in degrees
    toMICRESS,     \* rotate: its argument toMICRESS
    eulerRad,      \* rotate: its list eulerRad, the angles in degrees
    R,             \* rotate: the matrix eulerAnglesToRotationMatrix returned
    rotVal,        \* what rotate returned, in degrees (<<>> until it returns)
    conversions,   \* Reader: the conversions of angles it has entered
    handles        \* VtkWriter: the file objects self._f has been, in order

vars == <<values, celldata, err, pc, vtk_file, header_field, vi, gi, ti, columns,
          arr, template, tpl_in, dri_file, f_vtk, f_txt, vtk_exists, txt_exists,
          di, dim, dimensions, spacing, origin, celldata_size,
          makePathsAbsolute, args, todo, angles, phases, grain_count, time,
          txt_file, queried, orientation, eulerDegree, toMICRESS, eulerRad,
          R, rotVal, conversions, handles>>

vtkVars == <<vtk_file, header_field, vi, gi, ti, handles>>
driVars == <<template, dri_file, di, f_vtk>>
cfgVars == <<columns, arr, tpl_in, makePathsAbsolute, args>>
geoVars == <<dim, dimensions, spacing, origin, celldata_size>>
grainVars == <<angles, phases, grain_count>>
mainVars == <<todo, f_txt, txt_exists, txt_file, time, queried>>
rotVars == <<orientation, eulerDegree, toMICRESS, eulerRad, R, rotVal,
             conversions>>
envVars == <<cfgVars, rotVars, geoVars, grainVars, mainVars, vtk_exists>>

----------------------------------------------------------------------------
(* Bounds of the model *)

\* longest list of cell-data declarations
MaxDecl == 3
\* number of values of every per-cell dataset of the source file
DatasetSize == 2
\* longest array and greatest number of columns of a call of _write_array
MaxArrayLen == 5
MaxColumns == 3
\* longest list of declarations and greatest number of pieces of the
\* template of a run of the tag engine
MaxDriDecl == 2
MaxPieces == 2

----------------------------------------------------------------------------
(* Python strings *)

\* The characters the model's strings are made of, in ASCII order.
Ascii == << " ", "-", ".", "/", "0", "1", "2", "3", "4", "5", "6", "7", "8", "9",
            "<", ">", "a", "b", "c", "d", "e", "f", "g", "h", "i", "j", "k", "l",
            "m", "n", "o", "p", "q", "r", "s", "t", "u", "v", "w", "x", "y", "z" >>

Ord(c) == CHOOSE i \in 1..Len(Ascii) : Ascii[i] = c

DigitChar(d) == Ascii[5 + d]

IsSpace(c) == c = " "

IsDigit(c) == c \in {"0", "1", "2", "3", "4", "5", "6", "7", "8", "9"}

DigitValue(c) == Ord(c) - 5

RECURSIVE StrLess(_, _)
\* a < b for two Python 2 strings
StrLess(a, b) ==
    IF b = <<>> THEN FALSE
    ELSE IF a = <<>> THEN TRUE
    ELSE IF Head(a) = Head(b) THEN StrLess(Tail(a), Tail(b))
    ELSE Ord(Head(a)) < Ord(Head(b))

RECURSIVE StrOfNat(_)
\* str(n) for an integer n >= 0
StrOfNat(n) ==
    IF n < 10 THEN <<DigitChar(n)>>
    ELSE StrOfNat(n \div 10) \o <<DigitChar(n % 10)>>

\* lengths (spacing, origin) are numbers of tenths: Unit stands for 1.0
Unit == 10

\* str(x) of an element x of an array _convert2int_if_no_decimals returned
\* for equal elements v: an integer if v is whole, else a float of one
\* decimal
NumberText(v) ==
    IF v % Unit = 0 THEN StrOfNat(v \div Unit)
    ELSE StrOfNat(v \div Unit) \o <<".">> \o <<DigitChar(v % Unit)>>

RECURSIVE IntOfDigits(_, _)
\* int(s) for a string of digits, acc the value of the digits already read
IntOfDigits(s, acc) ==
    IF s = <<>> THEN acc
    ELSE IntOfDigits(Tail(s), 10 * acc + DigitValue(Head(s)))

\* s.strip()
RECURSIVE LStrip(_)
LStrip(s) == IF s # <<>> /\ IsSpace(Head(s)) THEN LStrip(Tail(s)) ELSE s

RECURSIVE RStrip(_)
RStrip(s) ==
    IF s # <<>> /\ IsSpace(s[Len(s)]) THEN RStrip(SubSeq(s, 1, Len(s) - 1)) ELSE s

Strip(s) == LStrip(RStrip(s))

\* whether t occurs in s at position i (1-based)
OccursAt(s, t, i) ==
    /\ i + Len(t) - 1 <= Len(s)
    /\ \A k \in 1..Len(t) : s[i + k - 1] = t[k]

\* t in s
Contains(s, t) == \E i \in 1..(Len(s) + 1) : OccursAt(s, t, i)

\* the first position from i on at which old occurs in s (0 if there is none)
NextOccurrence(s, old, i) ==
    IF \E j \in i..Len(s) : OccursAt(s, old, j)
    THEN CHOOSE j \in i..Len(s) :
            /\ OccursAt(s, old, j)
            /\ \A k \in i..(j - 1) : ~OccursAt(s, old, k)
    ELSE 0

RECURSIVE ReplaceFrom(_, _, _, _)
\* s[i-1:].replace(old, new) for a non-empty old: the occurrences are taken
\* from left to right and do not overlap
ReplaceFrom(s, old, new, i) ==
    LET j == NextOccurrence(s, old, i)
    IN  IF j = 0 THEN SubSeq(s, i, Len(s))
        ELSE SubSeq(s, i, j - 1) \o new \o ReplaceFrom(s, old, new, j + Len(old))

\* s.replace('', new): new is put before every character and at the end
Interleave(s, new) ==
    [k \in 1..((Len(s) + 1) * Len(new) + Len(s)) |->
        IF (k - 1) % (Len(new) + 1) < Len(new)
        THEN new[((k - 1) % (Len(new) + 1)) + 1]
        ELSE s[((k - 1) \div (Len(new) + 1)) + 1]]

\* s.replace(old, new)
StrReplace(s, old, new) ==
    IF old = <<>> THEN Interleave(s, new) ELSE ReplaceFrom(s, old, new, 1)

----------------------------------------------------------------------------
(* Data: the class constants *)

VTK_DATASET_ATTRIBUTE_TYPES == {"SCALARS", "VECTORS", "NORMALS", "TENSORS", "FIELD"}

VTK_DATASET_ATTRIBUTE_TYPE_ORDER(kind) ==
    CASE kind = "SCALARS" -> 0
      [] kind = "VECTORS" -> 1
      [] kind = "NORMALS" -> 2
      [] kind = "TENSORS" -> 3
      [] kind = "FIELD"   -> 4

VTK_INT_TYPES == {"bit", "unsigned_char", "char", "unsigned_short", "short",
                  "unsigned_int", "int", "unsigned_long", "long"}

VTK_FLOAT_TYPES == {"float", "double"}

----------------------------------------------------------------------------
(* rotMat: eulerAnglesToRotationMatrix, rotationMatrixToEulerAngles        *)

(* Angles are whole degrees and multiples of 90, for which the sines, the  *)
(* cosines and the entries of the matrices are -1, 0 or 1 and the          *)
(* arithmetic of the module is exact.  An angle the source holds in        *)
(* radians is written in degrees.                                          *)

Abs(x) == IF x < 0 THEN -x ELSE x

\* math.cos and math.sin of a multiple of 90 degrees
Cos(d) == IF d % 360 = 0 THEN 1 ELSE IF d % 360 = 180 THEN -1 ELSE 0
Sin(d) == IF d % 360 = 90 THEN 1 ELSE IF d % 360 = 270 THEN -1 ELSE 0

\* math.acos and math.asin of -1, 0 and 1, in degrees
Acos(c) == IF c = 1 THEN 0 ELSE IF c = 0 THEN 90 ELSE 180
Asin(s) == 90 * s

\* math.sqrt of 0 and 1
Sqrt(x) == x

\* np.dot of two 3 x 3 matrices
Dot(A, B) ==
    [i \in 1..3 |-> [j \in 1..3 |->
        A[i][1] * B[1][j] + A[i][2] * B[2][j] + A[i][3] * B[3][j]]]

\* val = val * math.pi / 180.; if val < 0: val += 2 * math.pi
Normalise(val) == IF val < 0 THEN val + 360 ELSE val

eulerAnglesToRotationMatrix(rad, toMicress) ==
    LET phi == rad[1]
        theta == rad[2]
        psi == rad[3]
        R0 == << <<Cos(phi), -Sin(phi), 0>>,
                 <<Sin(phi), Cos(phi), 0>>,
                 <<0, 0, 1>> >>
        R1 == << <<1, 0, 0>>,
                 <<0, Cos(theta), -Sin(theta)>>,
                 <<0, Sin(theta), Cos(theta)>> >>
        R2 == << <<Cos(psi), -Sin(psi), 0>>,
                 <<Sin(psi), Cos(psi), 0>>,
                 <<0, 0, 1>> >>
        Ram0 == << <<1, 0, 0>>, <<0, 0, 1>>, <<0, -1, 0>> >>
        Rma0 == << <<1, 0, 0>>, <<0, 0, -1>>, <<0, 1, 0>> >>
        Ram == IF ~toMicress THEN Rma0 ELSE Ram0
        Rma == IF ~toMicress THEN Ram0 ELSE Rma0
        REuler == Dot(Dot(R0, R1), R2)
    IN  Dot(Dot(Rma, REuler), Ram)

\* if x > 1: x = 1; if x < -1: x = -1
Clamp(x) == IF x > 1 THEN 1 ELSE IF x < -1 THEN -1 ELSE x

\* the angle rotationMatrixToEulerAngles takes from a sine and a cosine:
\* math.asin of the sine, its supplement if the cosine differs from the
\* cosine given by more than tol thousandths, less a turn above 180 degrees
AngleOf(sinA, cosA, tol) ==
    LET a == Asin(Clamp(sinA))
        b == IF Abs(Cos(a) - cosA) * 1000 > tol THEN 180 - a ELSE a
    IN  IF b > 180 THEN b - 360 ELSE b

\* if x < 0: x += 2 * math.pi
Positive(x) == IF x < 0 THEN x + 360 ELSE x

\* Positive of an angle math.asin returned: the sine of the angle 0 is a sum
\* of rounded products, 0 or a number of either sign next to it, and a
\* negative one makes the angle a full turn
PositiveOfRounded(x) == IF x = 0 THEN {0, 360} ELSE {Positive(x)}

\* the triples rotationMatrixToEulerAngles returns for the matrix M
rotationMatrixToEulerAngles(M) ==
    LET cosTheta == Clamp(M[3][3])
        sinTheta == Sqrt(1 - cosTheta * cosTheta)
        degenerate == Abs(sinTheta) * 100000 < 1
        theta == IF degenerate THEN 0 ELSE Acos(cosTheta)
        phi == IF degenerate
               THEN AngleOf(M[2][1], M[1][1], 5)
               ELSE AngleOf(M[1][3] \div sinTheta, (-M[2][3]) \div sinTheta, 5)
        psi == IF degenerate
               THEN 0
               ELSE AngleOf(M[3][1] \div sinTheta, M[3][2] \div sinTheta, 1)
    IN  { <<p, Positive(theta), s>> :
            p \in PositiveOfRounded(phi),
            s \in IF degenerate THEN {0} ELSE PositiveOfRounded(psi) }

\* what rotate(eulerDegree, toMICRESS) returns: one of these triples
Rotated(degrees, toMicress) ==
    rotationMatrixToEulerAngles(
        eulerAnglesToRotationMatrix([i \in 1..3 |-> Normalise(degrees[i])], toMicress))

----------------------------------------------------------------------------
(* The source file: every path "/a", "/b", ... holds a dataset of            *)
(* DatasetSize values, and no two datasets share a value.                   *)

LetterChar(i) == Ascii[16 + i]

PathAt(i) == <<"/", LetterChar(i)>>

PathIndex(p) == Ord(p[2]) - 16

\* the paths of an array of cells of three angles each (its shape has
\* three elements) and of such an array with the axes z, y and x (its shape
\* has four)
EulerPath == <<"/", "z">>
GridPath == <<"/", "y">>

\* the angles of the cells of these two arrays
EulerCells == << <<90, 90, 180>>, <<180, 90, 90>> >>

\* Reader.dset(h5path)[...], flattened
Dataset(p) ==
    IF p \in {EulerPath, GridPath} THEN EulerCells
    ELSE [j \in 1..DatasetSize |-> 10 * PathIndex(p) + j]

\* len(celldata_array.shape) after an array of one axis has been reshaped
Rank(p) == IF p = EulerPath THEN 3 ELSE IF p = GridPath THEN 4 ELSE 2

----------------------------------------------------------------------------
(* Reader.groups_celldata setter *)

\* whether character c belongs to the regex class cls
InClass(c, cls) ==
    CASE cls = "space"   -> IsSpace(c)
      [] cls = "nonspace" -> ~IsSpace(c)
      [] cls = "digit"   -> IsDigit(c)

\* the length of the longest run of characters of class cls in s from i on
RECURSIVE SpanLen(_, _, _)
SpanLen(s, i, cls) ==
    IF i <= Len(s) /\ InClass(s[i], cls) THEN 1 + SpanLen(s, i + 1, cls) ELSE 0

\* regex_fieldArrays.match(el) for '([^\s]+)(\s+)(\d+)': the three greedy
\* groups, as <<ok, group(1), group(3)>>
MatchFieldArray(el) ==
    LET n1 == SpanLen(el, 1, "nonspace")
        n2 == SpanLen(el, n1 + 1, "space")
        n3 == SpanLen(el, n1 + n2 + 1, "digit")
    IN  IF n1 > 0 /\ n2 > 0 /\ n3 > 0
        THEN [ok |-> TRUE, name |-> SubSeq(el, 1, n1),
              digits |-> SubSeq(el, n1 + n2 + 1, n1 + n2 + n3)]
        ELSE [ok |-> FALSE, name |-> <<>>, digits |-> <<>>]

\* regex_tags.match(s) for '<.*>'
MatchTag(s) == s # <<>> /\ Head(s) = "<" /\ \E i \in 2..Len(s) : s[i] = ">"

\* the tags check of the setter
TagsAccepted(tags) ==
    \A i \in 1..Len(tags) : Strip(tags[i]) = <<>> \/ MatchTag(Strip(tags[i]))

\* sum([el == 'FIELD' for el in values[3]])
CountFieldArrays(kinds) == Cardinality({i \in 1..Len(kinds) : kinds[i] = "FIELD"})

\* values[5] += [''] * (val_len - len(values[5]))
PadTags(tags, val_len) ==
    tags \o [i \in 1..(IF val_len > Len(tags) THEN val_len - Len(tags) ELSE 0) |-> <<>>]

\* fieldArrays: the (arrayName, numComponents) pair of every entry of values[4]
FieldArrayTuples(specs) ==
    [k \in 1..Len(specs) |->
        [arrayName |-> MatchFieldArray(specs[k]).name,
         numComponents |-> IntOfDigits(MatchFieldArray(specs[k]).digits, 0)]]

\* zip(celldata_arrays, dataNames, dataTypes, datasetAttributeTypes): a tuple
\* of length 4; arrayName, numComponents and tag are the elements the setter
\* appends later (len tells how many elements the Python tuple has)
ZipTuples(v) ==
    [i \in 1..Len(v.paths) |->
        [array |-> Dataset(v.paths[i]),
         dataName |-> v.dataNames[i],
         dataType |-> v.dataTypes[i],
         datasetAttributeType |-> v.datasetAttributeTypes[i],
         arrayName |-> <<>>, numComponents |-> 0, tag |-> <<>>, len |-> 4]]

\* key of tuples.sort(key=lambda tup: VTK_DATASET_ATTRIBUTE_TYPE_ORDER[tup[3]])
KindKey(tup) == VTK_DATASET_ATTRIBUTE_TYPE_ORDER(tup.datasetAttributeType)

\* InsertByKind with an insertion that is not stable: the element is put
\* before the elements of its own key
RECURSIVE InsertByKindUnstable(_, _)
InsertByKindUnstable(sorted, tup) ==
    IF sorted = <<>> THEN <<tup>>
    ELSE IF KindKey(sorted[Len(sorted)]) < KindKey(tup) THEN Append(sorted, tup)
    ELSE Append(InsertByKindUnstable(SubSeq(sorted, 1, Len(sorted) - 1), tup),
                sorted[Len(sorted)])

\* list.sort is stable: an element is put behind every element whose key is
\* not greater than its own
RECURSIVE InsertByKind(_, _)
InsertByKind(sorted, tup) ==
    IF sorted = <<>> THEN <<tup>>
    ELSE IF KindKey(sorted[Len(sorted)]) <= KindKey(tup) THEN Append(sorted, tup)
    ELSE Append(InsertByKind(SubSeq(sorted, 1, Len(sorted) - 1), tup),
                sorted[Len(sorted)])

RECURSIVE SortByKind(_)
SortByKind(tuples) ==
    IF tuples = <<>> THEN <<>>
    ELSE InsertByKind(SortByKind(SubSeq(tuples, 1, Len(tuples) - 1)),
                      tuples[Len(tuples)])

\* InsertByName with an insertion that is not stable: the element is put
\* before the elements of its own name
RECURSIVE InsertByNameUnstable(_, _)
InsertByNameUnstable(sorted, tup) ==
    IF sorted = <<>> THEN <<tup>>
    ELSE IF StrLess(sorted[Len(sorted)].dataName, tup.dataName)
         THEN Append(sorted, tup)
    ELSE Append(InsertByNameUnstable(SubSeq(sorted, 1, Len(sorted) - 1), tup),
                sorted[Len(sorted)])

\* field_tuples.sort(key=lambda tup: tup[1]), stable as well
RECURSIVE InsertByName(_, _)
InsertByName(sorted, tup) ==
    IF sorted = <<>> THEN <<tup>>
    ELSE IF ~StrLess(tup.dataName, sorted[Len(sorted)].dataName)
         THEN Append(sorted, tup)
    ELSE Append(InsertByName(SubSeq(sorted, 1, Len(sorted) - 1), tup),
                sorted[Len(sorted)])

RECURSIVE SortByName(_)
SortByName(tuples) ==
    IF tuples = <<>> THEN <<>>
    ELSE InsertByName(SortByName(SubSeq(tuples, 1, Len(tuples) - 1)),
                      tuples[Len(tuples)])

\* SortFieldsAtEnd without its sort
SortFieldsAtEndUnsorted(tuples, count) == tuples

\* tuples[:-count] + sorted(tuples[-count:]) for count > 0
SortFieldsAtEnd(tuples, count) ==
    SubSeq(tuples, 1, Len(tuples) - count)
        \o SortByName(SubSeq(tuples, Len(tuples) - count + 1, Len(tuples)))

\* tuples[i] = tuples[i] + fieldArrays[i - count_non_field_arrays]
AppendFieldArrays(tuples, fieldArrays, count_non_field_arrays) ==
    [i \in 1..Len(tuples) |->
        IF i > count_non_field_arrays
        THEN [tuples[i] EXCEPT
                !.arrayName = fieldArrays[i - count_non_field_arrays].arrayName,
                !.numComponents = fieldArrays[i - count_non_field_arrays].numComponents,
                !.len = 6]
        ELSE tuples[i]]

\* tuples[i] = tuples[i] + (tags[i],)
AppendTags(tuples, tags) ==
    [i \in 1..Len(tuples) |->
        [tuples[i] EXCEPT !.tag = tags[i], !.len = tuples[i].len + 1]]

\* the list the setter hands to Data.celldata
BuildCelldata(v) ==
    LET count_field_arrays == CountFieldArrays(v.datasetAttributeTypes)
        tags == PadTags(v.tags, Len(v.paths))
        sorted == SortByKind(ZipTuples(v))
        with_fields ==
            IF count_field_arrays > 0
            THEN AppendFieldArrays(SortFieldsAtEnd(sorted, count_field_arrays),
                                   FieldArrayTuples(v.fieldArrays),
                                   Len(sorted) - count_field_arrays)
            ELSE sorted
    IN  AppendTags(with_fields, tags)

\* the argument checks if the FIELDs had to be fewer than the field specs
CheckCelldataArgsStrict(v) ==
    IF \/ Len(v.dataNames) # Len(v.paths)
       \/ Len(v.dataTypes) # Len(v.paths)
       \/ Len(v.datasetAttributeTypes) # Len(v.paths)
        THEN "Hdf2Mic_InitArgError"
    ELSE IF \E i \in 1..Len(v.dataTypes) :
            v.dataTypes[i] \notin VTK_INT_TYPES \cup VTK_FLOAT_TYPES
        THEN "Hdf2Mic_InitArgError"
    ELSE IF \E i \in 1..Len(v.datasetAttributeTypes) :
            v.datasetAttributeTypes[i] \notin VTK_DATASET_ATTRIBUTE_TYPES
        THEN "Hdf2Mic_InitArgError"
    ELSE IF \E k \in 1..Len(v.fieldArrays) : ~MatchFieldArray(v.fieldArrays[k]).ok
        THEN "Hdf2Mic_InitArgError"
    ELSE IF CountFieldArrays(v.datasetAttributeTypes) >= Len(v.fieldArrays)
        THEN "Hdf2Mic_InitArgError"
    ELSE IF ~TagsAccepted(v.tags)
        THEN "Hdf2Mic_InitArgError"
    ELSE "none"

\* the argument checks of the setter: the exception it raises, or "none"
CheckCelldataArgs(v) ==
    IF \/ Len(v.dataNames) # Len(v.paths)
       \/ Len(v.dataTypes) # Len(v.paths)
       \/ Len(v.datasetAttributeTypes) # Len(v.paths)
        THEN "Hdf2Mic_InitArgError"
    ELSE IF \E i \in 1..Len(v.dataTypes) :
            v.dataTypes[i] \notin VTK_INT_TYPES \cup VTK_FLOAT_TYPES
        THEN "Hdf2Mic_InitArgError"
    ELSE IF \E i \in 1..Len(v.datasetAttributeTypes) :
            v.datasetAttributeTypes[i] \notin VTK_DATASET_ATTRIBUTE_TYPES
        THEN "Hdf2Mic_InitArgError"
    ELSE IF \E k \in 1..Len(v.fieldArrays) : ~MatchFieldArray(v.fieldArrays[k]).ok
        THEN "Hdf2Mic_InitArgError"
    ELSE IF CountFieldArrays(v.datasetAttributeTypes) > Len(v.fieldArrays)
        THEN "Hdf2Mic_InitArgError"
    ELSE IF ~TagsAccepted(v.tags)
        THEN "Hdf2Mic_InitArgError"
    ELSE "none"

\* Data.celldata setter: every tuple has 5 or 7 elements
CelldataLengthsOk(tuples) == \A i \in 1..Len(tuples) : tuples[i].len \in {5, 7}

\* celldata_name == "euler"
EulerName == <<"e", "u", "l", "e", "r">>

\* self.settings.rotate and celldata_name == "euler"
RotatesEulerCells(rotate, name) == rotate /\ name = EulerName

\* self.settings.rotate and self.dim == 30 and celldata_name == "euler"
ReordersEulerCells(rotate, d, name) == rotate /\ d = 30 /\ name = EulerName

\* x, y, z = celldata_array.shape
UnpacksThree(p) == Rank(p) = 3

\* (dimZ, dimY, dimX, t) = celldata_array.shape
UnpacksFour(p) == Rank(p) = 4

\* an entry of rotateCellDataValues: an index or a dataName
ByIndex(i) == [index |-> i, name |-> <<>>]
ByName(name) == [index |-> -1, name |-> name]

\* any((el == i or el == celldata_name) for el in cellDataToRotate), for the
\* i-th declaration, which the loop counts from 0
RotatesCellValues(cellDataToRotate, i, name) ==
    \E k \in 1..Len(cellDataToRotate) :
        cellDataToRotate[k].index = i - 1 \/ cellDataToRotate[k].name = name

\* the declarations at which the loop over the datasets raises ValueError:
\* one of the two unpackings of the shape fails
FailingDeclarations(v, rotate, d) ==
    {i \in 1..Len(v.paths) :
        \/ RotatesEulerCells(rotate, v.dataNames[i]) /\ ~UnpacksThree(v.paths[i])
        \/ ReordersEulerCells(rotate, d, v.dataNames[i]) /\ ~UnpacksFour(v.paths[i])}

\* the last declaration the loop over the datasets gets to
LastRead(v, rotate, d) ==
    LET failing == FailingDeclarations(v, rotate, d)
    IN  IF failing = {} THEN Len(v.paths)
        ELSE CHOOSE i \in failing : \A j \in failing : i <= j

\* the conversions the loop enters for the declarations 1 .. last: the
\* rotation of the cells of "euler", the reorder of its cells and, within
\* the reorder, the rotation of the values of the listed attributes
EnteredForCells(v, rotate, d, cellDataToRotate, last) ==
    {"cells" : i \in {i \in 1..last : RotatesEulerCells(rotate, v.dataNames[i])}}
    \cup {"reorder" : i \in {i \in 1..last :
              /\ RotatesEulerCells(rotate, v.dataNames[i]) => UnpacksThree(v.paths[i])
              /\ ReordersEulerCells(rotate, d, v.dataNames[i])}}
    \cup {"values" : i \in {i \in 1..last :
              /\ RotatesEulerCells(rotate, v.dataNames[i]) => UnpacksThree(v.paths[i])
              /\ ReordersEulerCells(rotate, d, v.dataNames[i])
              /\ UnpacksFour(v.paths[i])
              /\ RotatesCellValues(cellDataToRotate, i, v.dataNames[i])}}

\* rotArray of the rotation of the cells: rotate(cell, True) for every cell
RotatedArray(array) ==
    {f \in [1..Len(array) -> UNION {Rotated(array[k], TRUE) : k \in 1..Len(array)}] :
        \A k \in 1..Len(array) : f[k] \in Rotated(array[k], TRUE)}

\* the tuples with the arrays the loop appended: the array of "euler" is
\* rotArray if rotate is set (its dataset is the one of EulerPath then)
ConvertedCelldata(tuples, rotate) ==
    {[i \in 1..Len(tuples) |->
        IF RotatesEulerCells(rotate, tuples[i].dataName)
        THEN [tuples[i] EXCEPT !.array = ra] ELSE tuples[i]] :
     ra \in RotatedArray(EulerCells)}

\* the gate of the rotation of the orientations of the grains, if it were
\* dim == 3
RotatesAnglesInSpace(rotate, d) == rotate /\ d = 3

\* self.settings.rotate and self.dim == 30 (group_angles setter)
RotatesAngles(rotate, d) == rotate /\ d = 30

\* The setter, from its argument checks over the datasets it reads to
\* self.data.celldata = tuples.
groups_celldata_setter ==
    /\ pc = "read"
    /\ LET e == CheckCelldataArgs(values)
           last == LastRead(values, args.rotate, dim)
           entered == EnteredForCells(values, args.rotate, dim,
                                      args.rotateCellDataValues, last)
       IN  IF e # "none"
           THEN /\ err' = e
                /\ pc' = "failed"
                /\ celldata' = celldata
                /\ queried' = queried
                /\ conversions' = conversions
           ELSE IF args.missing = "celldata" /\ Len(values.paths) > 0
           THEN /\ err' = "Hdf2Mic_HDF5DatasetNotFoundError"
                /\ pc' = "failed"
                /\ celldata' = celldata
                /\ queried' = Append(queried, values.paths[1])
                /\ conversions' = conversions
           ELSE IF FailingDeclarations(values, args.rotate, dim) # {}
           THEN /\ err' = "ValueError"
                /\ pc' = "failed"
                /\ celldata' = celldata
                /\ queried' = queried \o SubSeq(values.paths, 1, last)
                /\ conversions' = conversions \cup entered
           ELSE IF ~CelldataLengthsOk(BuildCelldata(values))
           THEN /\ err' = "ValueError"
                /\ pc' = "failed"
                /\ celldata' = celldata
                /\ queried' = queried \o values.paths
                /\ conversions' = conversions \cup entered
           ELSE /\ celldata' \in ConvertedCelldata(BuildCelldata(values), args.rotate)
                /\ pc' = "built"
                /\ err' = err
                /\ queried' = queried \o values.paths
                /\ conversions' = conversions \cup entered
    /\ values' = IF CheckCelldataArgs(values) = "none"
                  THEN [values EXCEPT !.tags = PadTags(values.tags, Len(values.paths))]
                  ELSE values
    /\ UNCHANGED <<vtkVars, driVars, cfgVars, geoVars, grainVars, todo, f_txt,
                   txt_exists, txt_file, time, vtk_exists, orientation,
                   eulerDegree, toMICRESS, eulerRad, R, rotVal>>

----------------------------------------------------------------------------
(* Data: the setters of angles, phases and spacing *)

\* Data._angles and Data._phases before they are set
None == [isArray |-> FALSE, rows |-> 0, cols |-> 0]

\* main is at the component c: the reader ("read") or one of the writers
Running(c) == todo # <<>> /\ Head(todo) = c

\* _compare_angles_phases if it compared the shapes of the two arrays
AnglesPhasesMismatchOfShapes(a, p) ==
    /\ a.isArray
    /\ p.isArray
    /\ (a.rows # p.rows \/ a.cols # p.cols)

\* _compare_angles_phases raises: both are arrays and for a column i of
\* angles, angles[:, i] and phases[:, 0] differ in length
AnglesPhasesMismatch(a, p) ==
    /\ a.isArray
    /\ p.isArray
    /\ \E i \in 1..a.cols : a.rows # p.rows

\* the angles setter of Data on value
SetAngles(value) ==
    /\ angles' = value
    /\ grain_count' = IF value.isArray THEN value.rows ELSE grain_count
    /\ IF AnglesPhasesMismatch(value, phases)
       THEN err' = "Hdf2Mic_HDF5DatasetDimensionError" /\ pc' = "failed"
       ELSE err' = err /\ pc' = pc
    /\ UNCHANGED phases

\* the phases setter of Data on value
SetPhases(value) ==
    /\ phases' = value
    /\ grain_count' = IF value.isArray THEN value.rows ELSE grain_count
    /\ IF AnglesPhasesMismatch(angles, value)
       THEN err' = "Hdf2Mic_HDF5DatasetDimensionError" /\ pc' = "failed"
       ELSE err' = err /\ pc' = pc
    /\ UNCHANGED angles

\* the test of the spacing setter if it read the first two elements only
SpacingIsCubicOfTwo(value) == value[2] = value[1]

\* all(value == value[0])
SpacingIsCubic(value) == \A i \in 1..Len(value) : value[i] = value[1]

----------------------------------------------------------------------------
(* Reader.dset *)

\* h5path == '/' or h5path == ''
IsRootOrEmpty(h5path) == h5path = <<"/">> \/ h5path = <<>>

\* dset gets as far as self._f.get(h5path): it returns None before only for
\* the root or the empty path of a safe call
DsetLooksUp(h5path, safe) == ~(IsRootOrEmpty(h5path) /\ safe)

\* What a call of dset may end with, inFile telling whether the file has a
\* dataset at h5path: "None", a "dataset", the root "group", or the
\* exception raised. The empty path makes h5py raise ValueError, or
\* KeyError, which get turns into None.
DsetOutcomes(h5path, safe, inFile) ==
    IF ~DsetLooksUp(h5path, safe) THEN {"None"}
    ELSE IF h5path = <<"/">> THEN {"group"}
    ELSE IF h5path = <<>> THEN {"Hdf2Mic_HDF5DatasetNotFoundError", "ValueError"}
    ELSE IF inFile THEN {"dataset"}
    ELSE IF safe THEN {"None"}
    ELSE {"Hdf2Mic_HDF5DatasetNotFoundError"}

\* How self.dset(h5path)[...] ends on an outcome that is no dataset: a
\* group is indexed by names only, and raises on the Ellipsis
IndexingFailures(outcome) ==
    IF outcome = "group" THEN {"TypeError", "AttributeError"} ELSE {outcome}

\* queried after the call dset(h5path, safe)
Looked(h5path, safe) ==
    IF DsetLooksUp(h5path, safe) THEN Append(queried, h5path) ELSE queried

----------------------------------------------------------------------------
(* Reader.read: the setters in the order read calls them *)

\* the shape of an array of rows x cols
Array(rows, cols) == [isArray |-> TRUE, rows |-> rows, cols |-> cols]

\* a numpy scalar, the element of a 1-D dataset: it is no ndarray and its
\* shape is ()
ScalarValue == [isArray |-> FALSE, rows |-> -1, cols |-> -1]

\* angles[1:, :] and phases[1:, :], for len(shape) > 1
ClipFirstLine(a) ==
    IF a.isArray THEN [a EXCEPT !.rows = IF a.rows > 0 THEN a.rows - 1 ELSE 0]
    ELSE a

\* angles of the group_angles setter before the clip, for dim d of 2 or 3:
\* dset[..., 0] or dset[...], reshaped to one column if its shape has one
\* element
SelectAngles(src, d) ==
    IF d = 2
    THEN IF src.ndim = 1 THEN ScalarValue ELSE Array(src.rows, 1)
    ELSE IF src.ndim = 1 THEN Array(src.rows, 1) ELSE Array(src.rows, src.cols)

\* Whether the element dset[..., 0] of a 1-D dataset, read for dim d = 2,
\* is a float of Python, which has no shape: h5py returns a numpy scalar
\* or, in releases that convert it, the number itself.
ScalarIsPlain(found, src, d) ==
    IF found /\ d = 2 /\ src.ndim = 1 THEN BOOLEAN ELSE {FALSE}

\* phases of the group_phases setter before the clip: dset[...], reshaped
\* to one column if its shape has one element
SelectPhases(src) ==
    IF src.ndim = 1 THEN Array(src.rows, 1) ELSE Array(src.rows, src.cols)

\* the dim setter
ReadDim ==
    /\ pc = "read_dim"
    /\ IF args.dim \notin {1, 2, 3}
       THEN /\ err' = "Hdf2Mic_InitArgError"
            /\ pc' = "failed"
            /\ dim' = dim
       ELSE /\ dim' = args.dim
            /\ pc' = "read_time"
            /\ err' = err
    /\ UNCHANGED <<values, celldata, vtkVars, driVars, cfgVars, rotVars, dimensions,
                   spacing, origin, celldata_size, grainVars, mainVars, vtk_exists>>

\* is_number(s) is not None, for a text of digits within blanks or a text
\* with a character no number has
IsNumberText(s) ==
    /\ Strip(s) # <<>>
    /\ \A i \in 1..Len(Strip(s)) : IsDigit(Strip(s)[i])

\* float(s) of such a text, in tenths
NumberOfText(s) == Unit * IntOfDigits(Strip(s), 0)

\* the group_time setter; the dataset of the time is, if the file has it,
\* a "vector" (value[0] is a scalar), a "matrix" (value[0] is an array), a
\* "scalar" of shape () (value[0] raises IndexError), and at the path of a
\* "group" there is no dataset but a group (it has no attribute value)
ReadTime ==
    /\ pc = "read_time"
    /\ IF IsNumberText(args.time.text)
       THEN /\ time' = NumberOfText(args.time.text)
            /\ UNCHANGED <<err, queried>>
            /\ pc' = "read_angles"
       ELSE IF args.time.text # <<>> /\ Head(args.time.text) = "/"
       THEN /\ queried' = Looked(args.time.text, TRUE)
            /\ LET found == IF DsetLooksUp(args.time.text, TRUE)
                            THEN args.time.result ELSE "none"
               IN  IF found = "scalar"
                   THEN err' = "IndexError" /\ pc' = "failed" /\ time' = time
                   ELSE IF found = "group"
                   THEN err' = "AttributeError" /\ pc' = "failed" /\ time' = time
                   ELSE /\ time' = IF found = "vector" THEN args.time.value ELSE -1
                        /\ err' = err
                        /\ pc' = "read_angles"
       ELSE /\ UNCHANGED <<time, err, queried>>
            /\ pc' = "read_angles"
    /\ UNCHANGED <<values, celldata, vtkVars, driVars, cfgVars, rotVars, geoVars,
                   grainVars, todo, f_txt, txt_exists, txt_file, vtk_exists>>

\* the group_angles setter, then the angles setter of Data
ReadAngles ==
    /\ pc = "read_angles"
    /\ queried' = Looked(args.angles.path, TRUE)
    /\ LET found == "dataset" \in DsetOutcomes(args.angles.path, TRUE, args.angles.found)
       IN  \E plain \in ScalarIsPlain(found, args.angles, dim) :
           IF (found /\ dim = 1) \/ plain
           THEN \* angles is None, or a float: len(angles.shape) raises
                \* AttributeError
                /\ err' = "Hdf2Mic_InitArgError"
                /\ pc' = "failed"
                /\ UNCHANGED <<angles, grain_count, conversions>>
           ELSE IF RotatesAngles(args.rotate, dim) /\ ~found
           THEN \* angles is None: angles.shape raises AttributeError
                /\ err' = "Hdf2Mic_InitArgError"
                /\ pc' = "failed"
                /\ conversions' = conversions \cup {"angles"}
                /\ UNCHANGED <<angles, grain_count>>
           ELSE LET read == SelectAngles(args.angles, dim)
                    newAngles == IF ~found THEN None
                                 ELSE IF args.clip THEN ClipFirstLine(read) ELSE read
                IN  /\ angles' = newAngles
                    /\ conversions' = IF RotatesAngles(args.rotate, dim)
                                      THEN conversions \cup {"angles"}
                                      ELSE conversions
                    /\ grain_count' = IF newAngles.isArray THEN newAngles.rows
                                      ELSE grain_count
                    /\ IF AnglesPhasesMismatch(newAngles, phases)
                       THEN err' = "Hdf2Mic_HDF5DatasetDimensionError" /\ pc' = "failed"
                       ELSE err' = err /\ pc' = "read_phases"
    /\ UNCHANGED <<values, celldata, vtkVars, driVars, cfgVars, geoVars, phases,
                   todo, f_txt, txt_exists, txt_file, time, vtk_exists,
                   orientation, eulerDegree, toMICRESS, eulerRad, R, rotVal>>

\* the group_phases setter, then the phases setter of Data
ReadPhases ==
    /\ pc = "read_phases"
    /\ queried' = Looked(args.phases.path, TRUE)
    /\ LET found == "dataset" \in DsetOutcomes(args.phases.path, TRUE, args.phases.found)
       IN  IF ~found /\ args.clip
           THEN \* phases is None: len(phases.shape) raises AttributeError
                /\ err' = "Hdf2Mic_InitArgError"
                /\ pc' = "failed"
                /\ UNCHANGED <<phases, grain_count>>
           ELSE LET read == SelectPhases(args.phases)
                    newPhases == IF ~found THEN None
                                 ELSE IF args.clip THEN ClipFirstLine(read) ELSE read
                IN  /\ phases' = newPhases
                    /\ grain_count' = IF newPhases.isArray THEN newPhases.rows
                                      ELSE grain_count
                    /\ IF AnglesPhasesMismatch(angles, newPhases)
                       THEN err' = "Hdf2Mic_HDF5DatasetDimensionError" /\ pc' = "failed"
                       ELSE err' = err /\ pc' = "read"
    /\ UNCHANGED <<values, celldata, vtkVars, driVars, cfgVars, rotVars, geoVars, angles,
                   todo, f_txt, txt_exists, txt_file, time, vtk_exists>>

\* np.product(dimensions_vtkCell)
Product(cells) == cells[1] * cells[2] * cells[3]

\* the dimensions of the model if the second and third were exchanged
\* whenever rotate is set
PointCountsRotatedAlways(cells, rotate, d) ==
    IF rotate THEN <<cells[1] + 1, cells[3] + 1, cells[2] + 1>>
    ELSE <<cells[1] + 1, cells[2] + 1, cells[3] + 1>>

\* self.data.dimensions of the group_dimensions setter, d being self.dim
PointCounts(cells, rotate, d) ==
    IF rotate /\ d = 3 THEN <<cells[1] + 1, cells[3] + 1, cells[2] + 1>>
    ELSE <<cells[1] + 1, cells[2] + 1, cells[3] + 1>>

\* the group_dimensions setter, called once the cell data are set
ReadDimensions ==
    /\ pc = "built"
    /\ Running("read")
    /\ queried' = Looked(args.geo.dimensions, FALSE)
    /\ \E o \in DsetOutcomes(args.geo.dimensions, FALSE, args.missing # "dimensions") :
         IF o # "dataset"
         THEN /\ err' \in IndexingFailures(o)
              /\ pc' = "failed"
              /\ UNCHANGED <<dimensions, celldata_size>>
         ELSE /\ celldata_size' = Product(args.cells)
              /\ dimensions' = PointCounts(args.cells, args.rotate, dim)
              /\ pc' = "read_origin"
              /\ err' = err
    /\ UNCHANGED <<values, celldata, vtkVars, driVars, cfgVars, rotVars, dim, spacing,
                   origin, grainVars, todo, f_txt, txt_exists, txt_file, time,
                   vtk_exists>>

\* the group_origin setter
ReadOrigin ==
    /\ pc = "read_origin"
    /\ queried' = Looked(args.geo.origin, FALSE)
    /\ \E o \in DsetOutcomes(args.geo.origin, FALSE, args.missing # "origin") :
         IF o # "dataset"
         THEN /\ err' \in IndexingFailures(o)
              /\ pc' = "failed"
              /\ origin' = origin
         ELSE /\ origin' = args.origin
              /\ pc' = "read_spacing"
              /\ err' = err
    /\ UNCHANGED <<values, celldata, vtkVars, driVars, cfgVars, rotVars, dim, dimensions,
                   spacing, celldata_size, grainVars, todo, f_txt, txt_exists,
                   txt_file, time, vtk_exists>>

\* the group_spacing setter, then the spacing setter of Data; read returns
ReadSpacing ==
    /\ pc = "read_spacing"
    /\ queried' = Looked(args.geo.spacing, FALSE)
    /\ \E o \in DsetOutcomes(args.geo.spacing, FALSE, args.missing # "spacing") :
         IF o # "dataset"
         THEN /\ err' \in IndexingFailures(o)
              /\ pc' = "failed"
              /\ spacing' = spacing
         ELSE IF ~SpacingIsCubic(args.spacing)
         THEN /\ err' = "ValueError"
              /\ pc' = "failed"
              /\ spacing' = spacing
         ELSE /\ spacing' = args.spacing
              /\ pc' = "model"
              /\ err' = err
    /\ UNCHANGED <<values, celldata, vtkVars, driVars, cfgVars, rotVars, dim, dimensions,
                   origin, celldata_size, grainVars, todo, f_txt, txt_exists,
                   txt_file, time, vtk_exists>>

----------------------------------------------------------------------------
(* VtkWriter *)

\* A line of the VTK file: its text and, behind it, its numbers, written
\* with format fmt; end_space tells whether a blank ends the line.
TextLine(text) == [text |-> text, vals |-> <<>>, fmt |-> "", end_space |-> FALSE]

NumberLine(text, vals, fmt, end_space) ==
    [text |-> text, vals |-> vals, fmt |-> fmt, end_space |-> end_space]

\* the text of a VTK keyword
KindText(kind) ==
    CASE kind = "SCALARS" -> <<"S", "C", "A", "L", "A", "R", "S">>
      [] kind = "VECTORS" -> <<"V", "E", "C", "T", "O", "R", "S">>
      [] kind = "NORMALS" -> <<"N", "O", "R", "M", "A", "L", "S">>
      [] kind = "TENSORS" -> <<"T", "E", "N", "S", "O", "R", "S">>
      [] kind = "FIELD"   -> <<"F", "I", "E", "L", "D">>

\* the text of a VTK dataType
TypeText(dataType) ==
    CASE dataType = "int"    -> <<"i", "n", "t">>
      [] dataType = "float"  -> <<"f", "l", "o", "a", "t">>
      [] dataType = "double" -> <<"d", "o", "u", "b", "l", "e">>
      [] dataType = "bit"    -> <<"b", "i", "t">>
      [] dataType = "char"   -> <<"c", "h", "a", "r">>
      [] dataType = "short"  -> <<"s", "h", "o", "r", "t">>
      [] dataType = "long"   -> <<"l", "o", "n", "g">>

\* _DATASET_ATTRIBUTE_TEMPLATES['FIELD'][0]
HEADER_FIELD_TEMPLATE == <<"F", "I", "E", "L", "D", " ", "{", "d", "a", "t", "a", "_", "n", "a", "m", "e", "}", " ", "{", "n", "u", "m", "_", "a", "r", "r", "a", "y", "s", "}">>

\* header_field.format(data_name=dataName, num_arrays=numArrays): every
\* replacement field of the string is filled in, the rest is kept
FormatFieldHeader(s, dataName, numArrays) ==
    StrReplace(StrReplace(s, <<"{", "d", "a", "t", "a", "_", "n", "a", "m", "e", "}">>, dataName),
               <<"{", "n", "u", "m", "_", "a", "r", "r", "a", "y", "s", "}">>, StrOfNat(numArrays))

\* _DATASET_ATTRIBUTE_TEMPLATES[kind].format(data_name, data_type), one
\* element per line of the header
AttributeHeader(kind, dataName, dataType) ==
    <<TextLine(KindText(kind) \o <<" ">> \o dataName \o <<" ">> \o TypeText(dataType))>>
        \o (IF kind = "SCALARS" THEN <<TextLine(<<"L", "O", "O", "K", "U", "P", "_", "T", "A", "B", "L", "E", " ", "d", "e", "f", "a", "u", "l", "t">>)>> ELSE <<>>)

\* _DATASET_ATTRIBUTE_TEMPLATES['FIELD'][1].format(...)
ArrayHeader(arrayName, numComponents, numTuples, dataType) ==
    <<TextLine(arrayName \o <<" ">> \o StrOfNat(numComponents) \o <<" ">>
               \o StrOfNat(numTuples) \o <<" ">> \o TypeText(dataType))>>

\* the fmt of _write_array
ArrayFmt(dataType) == IF dataType \in VTK_INT_TYPES THEN "%u" ELSE "%f"

\* WriteArrayLines without the line of the tail
WriteArrayLinesNoTail(header, dataType, array, cols) ==
    header \o [r \in 1..(Len(array) \div cols) |->
                 [text |-> <<>>, vals |-> SubSeq(array, (r - 1) * cols + 1, r * cols),
                  fmt |-> ArrayFmt(dataType), end_space |-> FALSE]]

\* what _write_array appends to the file: the header, the rows of bulk and,
\* if remainder > 0, the values of tail on one line
WriteArrayLines(header, dataType, array, cols) ==
    LET size == Len(array)
        divisor == size \div cols
        remainder == size % cols
        divisor_quotient == size - remainder
        bulk == [r \in 1..divisor |->
                    NumberLine(<<>>, SubSeq(array, (r - 1) * cols + 1, r * cols),
                               ArrayFmt(dataType), FALSE)]
        tail == SubSeq(array, divisor_quotient + 1, size)
    IN  header \o bulk
          \o (IF remainder > 0
              THEN <<NumberLine(<<>>, tail, ArrayFmt(dataType), TRUE)>>
              ELSE <<>>)

\* _HEADER_TEMPLATE.format(...): the eight lines of the file header
FileHeader ==
    << TextLine(<<"#", " ", "v", "t", "k", " ", "D", "a", "t", "a", "F", "i", "l", "e", " ", "V", "e", "r", "s", "i", "o", "n">>),
       TextLine(<<"t", "=", "?", " ", "s">>),
       TextLine(<<"A", "S", "C", "I", "I">>),
       TextLine(<<"D", "A", "T", "A", "S", "E", "T", " ", "S", "T", "R", "U", "C", "T", "U", "R", "E", "D", "_", "P", "O", "I", "N", "T", "S">>),
       NumberLine(<<"D", "I", "M", "E", "N", "S", "I", "O", "N", "S">>, dimensions, "str", FALSE),
       NumberLine(<<"S", "P", "A", "C", "I", "N", "G">>, spacing, "str", FALSE),
       NumberLine(<<"O", "R", "I", "G", "I", "N">>, origin, "str", FALSE),
       NumberLine(<<"C", "E", "L", "L", "_", "D", "A", "T", "A">>, <<celldata_size>>, "str", FALSE) >>

\* sum([tup[3] != 'FIELD' for tup in data.celldata])
CountNonFieldTuples(tuples) ==
    Cardinality({i \in 1..Len(tuples) : tuples[i].datasetAttributeType # "FIELD"})

\* the elements of sequence s that satisfy Keep, in their order
RECURSIVE Filter(_, _)
Filter(s, keep) ==
    IF s = <<>> THEN <<>>
    ELSE (IF Head(s) \in keep THEN <<Head(s)>> ELSE <<>>) \o Filter(Tail(s), keep)

\* list(sorted(set(names)))
RECURSIVE SortedSet(_)
SortedSet(S) ==
    IF S = {} THEN <<>>
    ELSE LET m == CHOOSE x \in S : \A y \in S \ {x} : StrLess(x, y)
         IN  <<m>> \o SortedSet(S \ {m})

\* field_dataNames of write
FieldDataNames(tuples) ==
    SortedSet({tuples[i].dataName : i \in (CountNonFieldTuples(tuples) + 1)..Len(tuples)})

\* FieldTuples without its filter on the name of the FIELD
FieldTuplesOfAnyName(tuples, dataName) ==
    SubSeq(tuples, CountNonFieldTuples(tuples) + 1, Len(tuples))

\* [el for el in data.celldata[count_non_field_tuples:] if el[1] == dataName]
FieldTuples(tuples, dataName) ==
    LET fields == SubSeq(tuples, CountNonFieldTuples(tuples) + 1, Len(tuples))
    IN  Filter(fields, {fields[i] : i \in {j \in 1..Len(fields) :
                                            fields[j].dataName = dataName}})

\* open(self._f_path, mode): a file object that is open
Opened(mode) == [mode |-> mode, open |-> TRUE]

\* self._f.close(): self._f is the last of the file objects
Closed(hs) == [i \in 1..Len(hs) |-> IF i = Len(hs) THEN [hs[i] EXCEPT !.open = FALSE]
                                    ELSE hs[i]]

\* self._f = open(self._f_path, 'a') without the close before it
ReopenedUnclosed(hs) == Append(hs, Opened("a"))

\* self._f.close(); self._f = open(self._f_path, 'a')
Reopened(hs) == Append(Closed(hs), Opened("a"))

\* Writer.__enter__ if open(self._f_path, 'w') did not create the file
VtkEnterNotCreating ==
    /\ pc = "built"
    /\ vtk_file' = <<>>
    /\ handles' = <<Opened("w")>>
    /\ pc' = "vtk_write"
    /\ UNCHANGED <<values, celldata, err, header_field, vi, gi, ti, driVars, envVars>>

\* Writer.__enter__: open(self._f_path, 'w')
VtkEnter ==
    /\ pc = "built"
    /\ vtk_file' = <<>>
    /\ handles' = <<Opened("w")>>
    /\ vtk_exists' = TRUE
    /\ pc' = "vtk_write"
    /\ UNCHANGED <<values, celldata, err, header_field, vi, gi, ti, driVars,
                   cfgVars, rotVars, geoVars, grainVars, mainVars>>

\* write, up to self._f.write(header)
VtkWriteHeader ==
    /\ pc = "vtk_write"
    /\ vtk_file' = vtk_file \o FileHeader
    /\ vi' = 1
    /\ pc' = "vtk_nonfield"
    /\ UNCHANGED <<values, celldata, err, header_field, gi, ti, handles, driVars,
                   envVars>>

\* one turn of the loop "for tupl in data.celldata" that does not break
VtkWriteNonField ==
    /\ pc = "vtk_nonfield"
    /\ vi <= Len(celldata)
    /\ celldata[vi].datasetAttributeType # "FIELD"
    /\ vtk_file' = vtk_file \o
          WriteArrayLines(AttributeHeader(celldata[vi].datasetAttributeType,
                                          celldata[vi].dataName,
                                          celldata[vi].dataType),
                          celldata[vi].dataType, celldata[vi].array, columns)
    /\ handles' = Reopened(handles)
    /\ vi' = vi + 1
    /\ UNCHANGED <<values, celldata, err, pc, header_field, gi, ti, driVars, envVars>>

\* the end of that loop (break or exhaustion) and the checks before the FIELDs
VtkFieldsBegin ==
    /\ pc = "vtk_nonfield"
    /\ IF vi <= Len(celldata)
       THEN celldata[vi].datasetAttributeType = "FIELD"
       ELSE TRUE
    /\ LET count_non_field_tuples == CountNonFieldTuples(celldata)
       IN  IF count_non_field_tuples < Len(celldata)
           THEN IF celldata[count_non_field_tuples + 1].datasetAttributeType # "FIELD"
                   \/ \E i \in (count_non_field_tuples + 1)..Len(celldata) :
                          celldata[i].len # 7
                THEN \* the with-statement is left by the exception:
                     \* Writer.__exit__ closes self._f
                     /\ err' = "TypeError"
                     /\ pc' = "failed"
                     /\ handles' = Closed(handles)
                     /\ UNCHANGED <<header_field, gi>>
                ELSE /\ header_field' = HEADER_FIELD_TEMPLATE
                     /\ gi' = 1
                     /\ pc' = "vtk_group"
                     /\ err' = err
                     /\ handles' = handles
           ELSE /\ pc' = "vtk_exit"
                /\ UNCHANGED <<header_field, gi, err, handles>>
    /\ UNCHANGED <<values, celldata, vtk_file, vi, ti, driVars, envVars>>

\* one turn of "for dataName in field_dataNames", up to the FIELD header
VtkWriteFieldHeader ==
    /\ pc = "vtk_group"
    /\ LET dataName == FieldDataNames(celldata)[gi]
           numArrays == Len(FieldTuples(celldata, dataName))
       IN  /\ header_field' = FormatFieldHeader(header_field, dataName, numArrays)
           /\ vtk_file' = Append(vtk_file, TextLine(header_field'))
    /\ handles' = Reopened(handles)
    /\ ti' = 1
    /\ pc' = "vtk_array"
    /\ UNCHANGED <<values, celldata, err, vi, gi, driVars, envVars>>

\* one turn of "for tuple in tuples"
VtkWriteFieldArray ==
    /\ pc = "vtk_array"
    /\ LET tuples == FieldTuples(celldata, FieldDataNames(celldata)[gi])
           tuple == tuples[ti]
       IN  IF tuple.numComponents = 0
           THEN \* the with-statement is left by the exception:
                \* Writer.__exit__ closes self._f
                /\ err' = "ZeroDivisionError"
                /\ pc' = "failed"
                /\ handles' = Closed(handles)
                /\ UNCHANGED <<vtk_file, ti, gi>>
           ELSE /\ vtk_file' = vtk_file \o
                      WriteArrayLines(ArrayHeader(tuple.arrayName, tuple.numComponents,
                                          Len(tuple.array) \div tuple.numComponents,
                                          tuple.dataType),
                                      tuple.dataType, tuple.array, columns)
                /\ handles' = Reopened(handles)
                /\ err' = err
                /\ IF ti < Len(tuples)
                   THEN /\ ti' = ti + 1
                        /\ UNCHANGED <<gi, pc>>
                   ELSE /\ ti' = 1
                        /\ gi' = gi + 1
                        /\ pc' = IF gi < Len(FieldDataNames(celldata))
                                 THEN "vtk_group" ELSE "vtk_exit"
    /\ UNCHANGED <<values, celldata, header_field, vi, driVars, envVars>>

\* Writer.__exit__: self._f.close()
VtkExit ==
    /\ pc = "vtk_exit"
    /\ pc' = "vtk_done"
    /\ handles' = Closed(handles)
    /\ UNCHANGED <<values, celldata, err, vtk_file, header_field, vi, gi, ti,
                   driVars, envVars>>

----------------------------------------------------------------------------
(* The conversion of a list of cell-data declarations to the VTK file *)

\* "cellDataColumns": 9, the default of the JSON template
DefaultColumns == 9

FieldNames == {<<"f", "1">>, <<"f", "2">>}

\* the dataName of a declaration that is no FIELD: "n8", "n7", ...
NonFieldNameAt(i) == <<"n", DigitChar(9 - i)>>

DataTypeAt(i) == IF i % 2 = 1 THEN "int" ELSE "float"

\* the k-th entry of fieldArrays: "a 2", "b 3", "c 1", "d 2", ...
FieldSpecAt(k) == <<LetterChar(k), " ", DigitChar(1 + (k % 3))>>

\* the tag of the i-th declaration: "<t1>", "<t2>", ...
TagAt(i) == <<"<", "t", DigitChar(i), ">">>

\* what a declaration may be: a kind and, for a FIELD, the name of its group
DeclarationChoices ==
    ((VTK_DATASET_ATTRIBUTE_TYPES \ {"FIELD"}) \X {<<>>}) \cup ({"FIELD"} \X FieldNames)

\* The six lists of the declarations decls: the first nf field specs, and
\* tl tags of which those of mask are not empty.
MkValues(decls, nf, tl, mask) ==
    [paths |-> [i \in 1..Len(decls) |-> PathAt(i)],
     dataNames |-> [i \in 1..Len(decls) |->
                      IF decls[i][1] = "FIELD" THEN decls[i][2] ELSE NonFieldNameAt(i)],
     dataTypes |-> [i \in 1..Len(decls) |-> DataTypeAt(i)],
     datasetAttributeTypes |-> [i \in 1..Len(decls) |-> decls[i][1]],
     fieldArrays |-> [k \in 1..nf |-> FieldSpecAt(k)],
     tags |-> [i \in 1..tl |-> IF i \in mask THEN TagAt(i) ELSE <<>>]]

\* values is one of the lists of at most maxn declarations drawn from
\* choices: the number of field specs differs by at most slack from the
\* number of FIELDs, and the list of tags is complete or one short
DeclarationsGiven(maxn, choices, slack) ==
    \E n \in 0..maxn :
      \E decls \in [1..n -> choices] :
        \E nf \in 0..(n + 1), tl \in 0..n :
          \E mask \in SUBSET (1..tl) :
            /\ nf >= Cardinality({i \in 1..n : decls[i][1] = "FIELD"}) - slack
            /\ nf <= Cardinality({i \in 1..n : decls[i][1] = "FIELD"}) + slack
            /\ tl >= n - 1
            /\ values = MkValues(decls, nf, tl, mask)

\* the time of a run given as the number 0
TimeZero == [text |-> <<"0">>, result |-> "none", value |-> 0]

\* the dataset of a path that the run does not give
NoSource == [path |-> <<>>, found |-> FALSE, ndim |-> 2, rows |-> 0, cols |-> 0]

\* a dataset of rows x cols, or of rows elements for ndim = 1, that the
\* file has at path
Source(path, ndim, rows, cols) ==
    [path |-> path, found |-> TRUE, ndim |-> ndim, rows |-> rows, cols |-> cols]

\* the paths of the orientations, of the phases and of the geometry
AnglesPath == <<"/", "e">>
PhasesPath == <<"/", "p">>
GeometryPaths == [dimensions |-> <<"/", "d">>, origin |-> <<"/", "o">>, spacing |-> <<"/", "s">>]

\* the ArgMap of a run that only reads the cell data declarations
NoArgs == [dim |-> 2, time |-> TimeZero,
           rotate |-> FALSE, rotateCellDataValues |-> <<>>, clip |-> FALSE,
           cells |-> <<3, 3, 1>>, spacing |-> <<Unit, Unit, Unit>>,
           origin |-> <<0, 0, 0>>,
           angles |-> NoSource, phases |-> NoSource, geo |-> GeometryPaths,
           missing |-> "none", stale |-> FALSE,
           txt |-> FALSE, vtk |-> FALSE, dri |-> FALSE]

\* a run in which rotate has not been called
NoRotation ==
    /\ orientation = <<0, 0, 0>>
    /\ eulerDegree = <<0, 0, 0>>
    /\ toMICRESS = TRUE
    /\ eulerRad = <<>>
    /\ R = <<>>
    /\ rotVal = <<>>
    /\ conversions = {}

\* the writers before their first call
NoOutput ==
    /\ celldata = <<>>
    /\ err = "none"
    /\ queried = <<>>
    /\ txt_file = <<>>
    /\ vtk_file = <<>>
    /\ header_field = <<>>
    /\ vi = 1 /\ gi = 1 /\ ti = 1 /\ di = 1
    /\ template = <<>>
    /\ dri_file = <<>>

\* a run of the reader and the writers
InitWriters == NoRotation /\ NoOutput /\ handles = <<>>

\* Data after Data.__init__, for a run that only reads the cell data
\* declarations
InitUnread ==
    /\ todo = <<>>
    /\ args = NoArgs
    /\ angles = None
    /\ phases = None
    /\ grain_count = -1
    /\ time = -1

\* the state of a run before Reader.read sets the cell data; the geometry
\* is that of 3 x 3 x 1 cells of edge 1 at the origin
InitRun ==
    /\ InitWriters
    /\ InitUnread
    /\ dim = 2
    /\ dimensions = <<4, 4, 2>>
    /\ spacing = <<Unit, Unit, Unit>>
    /\ origin = <<0, 0, 0>>
    /\ celldata_size = 9

InitBuild ==
    /\ InitRun
    /\ pc = "read"
    /\ DeclarationsGiven(MaxDecl, DeclarationChoices, 1)
    /\ columns = DefaultColumns
    /\ arr = [header |-> <<>>, dataType |-> "int", array |-> <<>>]
    /\ tpl_in = <<>>
    /\ f_vtk = <<>> /\ f_txt = <<>>
    /\ vtk_exists = FALSE /\ txt_exists = FALSE
    /\ makePathsAbsolute = FALSE

NextBuild ==
    \/ groups_celldata_setter
    \/ VtkEnter
    \/ VtkWriteHeader
    \/ VtkWriteNonField
    \/ VtkFieldsBegin
    \/ VtkWriteFieldHeader
    \/ VtkWriteFieldArray
    \/ VtkExit

SpecBuild == InitBuild /\ [][NextBuild]_vars

----------------------------------------------------------------------------
(* Reader.read on the arguments of a run *)

\* the datasets of the orientations and of the phases: none, two or three
\* rows, or a 1-D dataset of two elements
AnglesChoices == {NoSource, Source(AnglesPath, 2, 2, 3), Source(AnglesPath, 2, 3, 3),
                  Source(AnglesPath, 1, 2, 0)}
PhasesChoices == {NoSource, Source(PhasesPath, 2, 2, 1), Source(PhasesPath, 2, 3, 1),
                  Source(PhasesPath, 1, 2, 0)}

\* the time: the number 0, or the path of a dataset the file does not have
TimeChoices == {TimeZero, [text |-> <<"/", "t">>, result |-> "none", value |-> 0]}

\* the arguments of the runs: dim from 0 to 4, 3 x 3 x 1 or 2 x 3 x 4
\* cells, spacings of 0.5 and 1 on every axis
ReadArgs ==
    [dim : 0..4, time : TimeChoices, rotate : BOOLEAN, rotateCellDataValues : {<<>>}, clip : BOOLEAN,
     cells : {<<3, 3, 1>>, <<2, 3, 4>>},
     spacing : [1..3 -> {5, Unit}],
     origin : {<<0, 0, 0>>},
     angles : AnglesChoices, phases : PhasesChoices, geo : {GeometryPaths},
     missing : {"none", "dimensions", "origin", "spacing"}, stale : {FALSE},
     txt : {FALSE}, vtk : {FALSE}, dri : {FALSE}]

\* the declarations of the runs: none, one attribute with a tag, one FIELD
\* without a field spec
ReadDeclarations ==
    { MkValues(<<>>, 0, 0, {}),
      MkValues(<< <<"SCALARS", <<>>>> >>, 0, 1, {1}),
      MkValues(<< <<"FIELD", <<"f", "1">>>> >>, 0, 1, {1}) }

\* Data after Data.__init__ and the writers before their first call
InitData ==
    /\ InitWriters
    /\ angles = None
    /\ phases = None
    /\ grain_count = -1
    /\ time = -1
    /\ dim = 0
    /\ dimensions = <<>>
    /\ spacing = <<>>
    /\ origin = <<>>
    /\ celldata_size = -1

InitRead ==
    /\ InitData
    /\ pc = "read_dim"
    /\ todo = <<"read">>
    /\ args \in ReadArgs
    /\ values \in ReadDeclarations
    /\ columns = DefaultColumns
    /\ arr = [header |-> <<>>, dataType |-> "int", array |-> <<>>]
    /\ tpl_in = <<>>
    /\ f_vtk = <<>> /\ f_txt = <<>>
    /\ vtk_exists = FALSE /\ txt_exists = FALSE
    /\ makePathsAbsolute = FALSE

NextRead ==
    \/ ReadDim
    \/ ReadTime
    \/ ReadAngles
    \/ ReadPhases
    \/ groups_celldata_setter
    \/ ReadDimensions
    \/ ReadOrigin
    \/ ReadSpacing

SpecRead == InitRead /\ [][NextRead]_vars

----------------------------------------------------------------------------
(* Reader.read on the paths of a run and the datasets of its file *)

\* a path of the run: in the file or not, the root, or empty
PathChoices(path) ==
    {Source(path, 2, 2, IF path = AnglesPath THEN 3 ELSE 1),
     [NoSource EXCEPT !.path = path],
     [NoSource EXCEPT !.path = <<"/">>],
     NoSource}

\* the paths of the geometry: at most one of them is the root or empty
GeometryChoices ==
    {GeometryPaths}
      \cup {[GeometryPaths EXCEPT ![k] = p] :
              k \in {"dimensions", "origin", "spacing"}, p \in {<<"/">>, <<>>}}

\* the time of the run: a number, a text that is neither a number nor a
\* path, the root, or a path with what the file has there
TimeLookups ==
    {[text |-> t, result |-> "none", value |-> 0] : t \in {<<"0">>, <<" ", "2", " ">>, <<>>, <<"t">>, <<"/">>}}
      \cup {[text |-> <<"/", "t">>, result |-> r, value |-> 3 * Unit] :
              r \in {"none", "vector", "matrix", "scalar", "group"}}

LookupArgs ==
    [dim : {2, 3}, time : TimeLookups, rotate : {FALSE}, rotateCellDataValues : {<<>>}, clip : BOOLEAN,
     cells : {<<3, 3, 1>>},
     spacing : {<<Unit, Unit, Unit>>},
     origin : {<<0, 0, 0>>},
     angles : PathChoices(AnglesPath), phases : PathChoices(PhasesPath),
     geo : GeometryChoices,
     missing : {"none", "dimensions", "origin", "spacing", "celldata"},
     stale : {FALSE}, txt : {FALSE}, vtk : {FALSE}, dri : {FALSE}]

InitLookup ==
    /\ InitData
    /\ pc = "read_dim"
    /\ todo = <<"read">>
    /\ args \in LookupArgs
    /\ values \in ReadDeclarations
    /\ columns = DefaultColumns
    /\ arr = [header |-> <<>>, dataType |-> "int", array |-> <<>>]
    /\ tpl_in = <<>>
    /\ f_vtk = <<>> /\ f_txt = <<>>
    /\ vtk_exists = FALSE /\ txt_exists = FALSE
    /\ makePathsAbsolute = FALSE

SpecLookup == InitLookup /\ [][NextRead]_vars

----------------------------------------------------------------------------
(* Reader.read on orientations: the settings rotate and                    *)
(* rotateCellDataValues, the orientations of the grains and arrays of the  *)
(* orientations of the cells                                               *)

\* the six lists of declarations of the type float, without field specs
\* and tags
Declared(paths, names, kinds) ==
    [paths |-> paths, dataNames |-> names,
     dataTypes |-> [i \in 1..Len(paths) |-> "float"],
     datasetAttributeTypes |-> kinds, fieldArrays |-> <<>>, tags |-> <<>>]

\* the declarations of the runs: none; "euler" read from the array of three
\* axes, from the one of four and from one of one axis; another name read
\* from an array of one axis and from the one of three; an attribute
\* followed by "euler"
ConvertDeclarations ==
    { Declared(<<>>, <<>>, <<>>),
      Declared(<<EulerPath>>, <<EulerName>>, <<"VECTORS">>),
      Declared(<<GridPath>>, <<EulerName>>, <<"VECTORS">>),
      Declared(<<PathAt(1)>>, <<EulerName>>, <<"SCALARS">>),
      Declared(<<PathAt(1)>>, <<NonFieldNameAt(1)>>, <<"SCALARS">>),
      Declared(<<EulerPath>>, <<NonFieldNameAt(1)>>, <<"VECTORS">>),
      Declared(<<PathAt(1), EulerPath>>, <<NonFieldNameAt(1), EulerName>>,
               <<"SCALARS", "VECTORS">>) }

\* the runs: every dim of the domain and the dim of the gates, rotate set
\* or not, rotateCellDataValues empty, naming "euler" or naming the first
\* declaration
ConvertArgs ==
    [dim : {1, 2, 3, 30}, time : {TimeZero}, rotate : BOOLEAN,
     rotateCellDataValues : {<<>>, <<ByName(EulerName)>>, <<ByIndex(0)>>},
     clip : BOOLEAN,
     cells : {<<3, 3, 1>>},
     spacing : {<<Unit, Unit, Unit>>},
     origin : {<<0, 0, 0>>},
     angles : {NoSource, Source(AnglesPath, 2, 2, 3)},
     phases : {NoSource, Source(PhasesPath, 2, 2, 1)}, geo : {GeometryPaths},
     missing : {"none"}, stale : {FALSE},
     txt : {FALSE}, vtk : {FALSE}, dri : {FALSE}]

InitConvert ==
    /\ InitData
    /\ pc = "read_dim"
    /\ todo = <<"read">>
    /\ args \in ConvertArgs
    /\ values \in ConvertDeclarations
    /\ columns = DefaultColumns
    /\ arr = [header |-> <<>>, dataType |-> "int", array |-> <<>>]
    /\ tpl_in = <<>>
    /\ f_vtk = <<>> /\ f_txt = <<>>
    /\ vtk_exists = FALSE /\ txt_exists = FALSE
    /\ makePathsAbsolute = FALSE

SpecConvert == InitConvert /\ [][NextRead]_vars

----------------------------------------------------------------------------
(* One call of VtkWriter._write_array on an open file *)

\* the arrays of at most maxlen values 1 or 2
RECURSIVE ArraysUpTo(_)
ArraysUpTo(maxlen) ==
    IF maxlen = 0 THEN {<<>>}
    ELSE ArraysUpTo(maxlen - 1)
           \cup {Append(a, v) : a \in {b \in ArraysUpTo(maxlen - 1) : Len(b) = maxlen - 1},
                                v \in {1, 2}}

InitArray ==
    /\ NoRotation
    /\ NoOutput
    /\ InitUnread
    /\ handles = <<Opened("w")>>
    /\ dim = 2
    /\ dimensions = <<4, 4, 2>>
    /\ spacing = <<Unit, Unit, Unit>>
    /\ origin = <<0, 0, 0>>
    /\ celldata_size = 9
    /\ pc = "array_call"
    /\ values = MkValues(<<>>, 0, 0, {})
    /\ \E a \in ArraysUpTo(MaxArrayLen), t \in {"int", "float"} :
          arr = [header |-> AttributeHeader("SCALARS", NonFieldNameAt(1), t),
                 dataType |-> t, array |-> a]
    /\ columns \in 1..MaxColumns
    /\ tpl_in = <<>>
    /\ f_vtk = <<>> /\ f_txt = <<>>
    /\ vtk_exists = FALSE /\ txt_exists = FALSE
    /\ makePathsAbsolute = FALSE

\* _write_array(header, dataType, array)
WriteArray ==
    /\ pc = "array_call"
    /\ vtk_file' = vtk_file \o WriteArrayLines(arr.header, arr.dataType, arr.array, columns)
    /\ handles' = Reopened(handles)
    /\ pc' = "array_done"
    /\ UNCHANGED <<values, celldata, err, header_field, vi, gi, ti, driVars, envVars>>

NextArray == WriteArray

SpecArray == InitArray /\ [][NextArray]_vars

----------------------------------------------------------------------------
(* DriWriter *)

DRI_TAG_GRAIN_PROPERTIES == <<"<", "g", "r", "a", "i", "n", "-", "p", "r", "o", "p", "e", "r", "t", "i", "e", "s", ">">>

DRI_TAG_CELLS == << <<"<", "c", "e", "l", "l", "s", "X", ">">>, <<"<", "c", "e", "l", "l", "s", "Y", ">">>, <<"<", "c", "e", "l", "l", "s", "Z", ">">> >>

DRI_TAG_SPACING == <<"<", "s", "p", "a", "c", "i", "n", "g", ">">>

\* the working directory of the run
Cwd == <<"/", "w">>

\* os.path.abspath(path) for a path without "." and ".." components
Abspath(path) == IF path # <<>> /\ Head(path) = "/" THEN path ELSE Cwd \o <<"/">> \o path

\* _replace with str.replace(tag, replacement, 1)
ReplaceFirst(text, tag, replacement) ==
    IF Contains(text, tag)
    THEN LET i == NextOccurrence(text, tag, 1)
         IN  SubSeq(text, 1, i - 1) \o replacement
               \o SubSeq(text, i + Len(tag), Len(text))
    ELSE text

\* self.template after _replace(tag, replacement) on the template text
Replace(text, tag, replacement) ==
    IF Contains(text, tag) THEN StrReplace(text, tag, replacement) ELSE text

\* f_t.read(): the text of the template file
RECURSIVE JoinPieces(_)
JoinPieces(pieces) ==
    IF pieces = <<>> THEN <<>> ELSE Head(pieces) \o JoinPieces(Tail(pieces))

\* "if fieldArrayName:" for fieldArrayName = tupl[-2] of a tuple of length 7,
\* (array, dataName, dataType, datasetAttributeType, arrayName,
\* numComponents, tag): the element is the integer numComponents
FieldArrayNameGiven(tupl) == tupl.len = 7 /\ tupl.numComponents # 0

\* replacement = f_vtk + " " + dataName, vtk being f_vtk
UserReplacement(tupl, vtk) == vtk \o <<" ">> \o tupl.dataName

\* Writer.__enter__: open(self._f_path, 'w')
DriEnter ==
    /\ pc = "built"
    /\ dri_file' = <<>>
    /\ pc' = "dri_read"
    /\ UNCHANGED <<values, celldata, err, vtkVars, template, di, f_vtk, envVars>>

\* write, up to self.template = template
DriReadTemplate ==
    /\ pc = "dri_read"
    /\ IF JoinPieces(tpl_in) = <<>>
       THEN /\ err' = "Hdf2Mic_DrivingFileTaggingError"
            /\ pc' = "failed"
            /\ UNCHANGED <<template, di>>
       ELSE /\ template' = JoinPieces(tpl_in)
            /\ di' = 1
            /\ pc' = "dri_cells"
            /\ err' = err
    /\ UNCHANGED <<values, celldata, vtkVars, dri_file, f_vtk, envVars>>

\* one turn of "for i in range(data.dim)"
DriReplaceCells ==
    /\ pc = "dri_cells"
    /\ di <= dim
    /\ template' = Replace(template, DRI_TAG_CELLS[di], StrOfNat(dimensions[di] - 1))
    /\ di' = di + 1
    /\ UNCHANGED <<values, celldata, err, pc, vtkVars, dri_file, f_vtk, envVars>>

\* self._replace(Data.DRI_TAG_SPACING, data.spacing[0])
DriReplaceSpacing ==
    /\ pc = "dri_cells"
    /\ di > dim
    /\ template' = Replace(template, DRI_TAG_SPACING, NumberText(spacing[1]))
    /\ pc' = "dri_txt"
    /\ UNCHANGED <<values, celldata, err, vtkVars, dri_file, di, f_vtk, envVars>>

\* the block "if f_txt:"
DriReplaceGrainProperties ==
    /\ pc = "dri_txt"
    /\ IF f_txt # <<>> /\ ~txt_exists
       THEN /\ err' = "Hdf2Mic_DrivingFileTaggingError"
            /\ pc' = "failed"
            /\ UNCHANGED template
       ELSE /\ template' =
                 IF f_txt # <<>>
                 THEN Replace(template, DRI_TAG_GRAIN_PROPERTIES,
                              IF makePathsAbsolute THEN Abspath(f_txt) ELSE f_txt)
                 ELSE template
            /\ pc' = "dri_vtk"
            /\ err' = err
    /\ UNCHANGED <<values, celldata, vtkVars, dri_file, di, f_vtk, envVars>>

\* the block "if f_vtk:" without the test os.path.isfile(f_vtk)
DriCheckVtkUnchecked ==
    /\ pc = "dri_vtk"
    /\ pc' = IF f_vtk # <<>> /\ Len(celldata) > 0 THEN "dri_user" ELSE "dri_save"
    /\ di' = 1
    /\ UNCHANGED <<values, celldata, err, vtkVars, template, dri_file, f_vtk, envVars>>

\* "if f_vtk:" and "if (os.path.isfile(f_vtk)):"
DriCheckVtk ==
    /\ pc = "dri_vtk"
    /\ IF f_vtk # <<>> /\ ~vtk_exists
       THEN /\ err' = "Hdf2Mic_DrivingFileTaggingError"
            /\ pc' = "failed"
            /\ di' = di
       ELSE /\ pc' = IF f_vtk # <<>> /\ Len(celldata) > 0 THEN "dri_user" ELSE "dri_save"
            /\ di' = 1
            /\ err' = err
    /\ UNCHANGED <<values, celldata, vtkVars, template, dri_file, f_vtk, envVars>>

\* one turn of "for tupl in data.celldata"; " " + fieldArrayName raises
\* TypeError, fieldArrayName being an integer
DriReplaceUserTag ==
    /\ pc = "dri_user"
    /\ f_vtk' = IF makePathsAbsolute THEN Abspath(f_vtk) ELSE f_vtk
    /\ IF FieldArrayNameGiven(celldata[di])
       THEN /\ err' = "TypeError"
            /\ pc' = "failed"
            /\ UNCHANGED <<template, di>>
       ELSE /\ template' = Replace(template, celldata[di].tag,
                                   UserReplacement(celldata[di], f_vtk'))
            /\ di' = di + 1
            /\ pc' = IF di < Len(celldata) THEN "dri_user" ELSE "dri_save"
            /\ err' = err
    /\ UNCHANGED <<values, celldata, vtkVars, dri_file, envVars>>

\* self._f.write(self.template)
DriSave ==
    /\ pc = "dri_save"
    /\ dri_file' = template
    /\ pc' = "dri_exit"
    /\ UNCHANGED <<values, celldata, err, vtkVars, template, di, f_vtk, envVars>>

\* Writer.__exit__: self._f.close()
DriExit ==
    /\ pc = "dri_exit"
    /\ pc' = "dri_done"
    /\ UNCHANGED <<values, celldata, err, vtkVars, driVars, envVars>>

----------------------------------------------------------------------------
(* The tag engine on the cell data of a list of declarations *)

\* the name of the VTK output file
VtkPath == <<"o", ".", "v", "t", "k">>

\* the pieces a template is made of: text, the tags of the first two
\* declarations, a tag no declaration has, and an implicit tag
TemplatePieces == { <<"x">>, TagAt(1), TagAt(2), <<"<", "z", "z", ">">>, <<"<", "c", "e", "l", "l", "s", "X", ">">> }

\* the sequences of at most maxlen pieces
RECURSIVE PieceLists(_)
PieceLists(maxlen) ==
    IF maxlen = 0 THEN {<<>>}
    ELSE PieceLists(maxlen - 1)
           \cup {Append(l, piece) : l \in {m \in PieceLists(maxlen - 1) : Len(m) = maxlen - 1},
                                    piece \in TemplatePieces}

\* the sequences of at most maxlen pieces of the set pieces
RECURSIVE Templates(_, _)
Templates(pieces, maxlen) ==
    IF maxlen = 0 THEN {<<>>}
    ELSE Templates(pieces, maxlen - 1)
           \cup {Append(l, piece) :
                   l \in {t \in Templates(pieces, maxlen - 1) : Len(t) = maxlen - 1},
                   piece \in pieces}

InitDri ==
    /\ InitRun
    /\ pc = "read"
    /\ DeclarationsGiven(MaxDriDecl, {<<"SCALARS", <<>>>>} \cup ({"FIELD"} \X FieldNames), 0)
    /\ columns = DefaultColumns
    /\ arr = [header |-> <<>>, dataType |-> "int", array |-> <<>>]
    /\ tpl_in \in PieceLists(MaxPieces)
    /\ f_vtk \in {<<>>, VtkPath}
    /\ f_txt = <<>>
    /\ vtk_exists \in {f_vtk # <<>>, FALSE}
    /\ txt_exists = FALSE
    /\ makePathsAbsolute \in BOOLEAN

NextDri ==
    \/ groups_celldata_setter
    \/ DriEnter
    \/ DriReadTemplate
    \/ DriReplaceCells
    \/ DriReplaceSpacing
    \/ DriReplaceGrainProperties
    \/ DriCheckVtk
    \/ DriReplaceUserTag
    \/ DriSave
    \/ DriExit

SpecDri == InitDri /\ [][NextDri]_vars

----------------------------------------------------------------------------
(* The tag engine on declarations of which every one has a tag, and of     *)
(* which the first may have the tag of the second as its dataName          *)

\* two SCALARS with the tags "<t1>" and "<t2>"; the dataName of the first
\* is firstName
TaggedPair(firstName) ==
    [Declared(<<PathAt(1), PathAt(2)>>, <<firstName, NonFieldNameAt(2)>>,
              <<"SCALARS", "SCALARS">>)
        EXCEPT !.tags = <<TagAt(1), TagAt(2)>>]

NestedPieces == { <<"x">>, TagAt(1), TagAt(2), DRI_TAG_CELLS[1] }

InitNested ==
    /\ InitRun
    /\ pc = "read"
    /\ values \in {TaggedPair(NonFieldNameAt(1)), TaggedPair(TagAt(2))}
    /\ columns = DefaultColumns
    /\ arr = [header |-> <<>>, dataType |-> "int", array |-> <<>>]
    /\ tpl_in \in Templates(NestedPieces, MaxPieces)
    /\ f_vtk \in {<<>>, VtkPath}
    /\ f_txt = <<>>
    /\ vtk_exists \in {f_vtk # <<>>, FALSE}
    /\ txt_exists = FALSE
    /\ makePathsAbsolute \in BOOLEAN

SpecNested == InitNested /\ [][NextDri]_vars

----------------------------------------------------------------------------
(* The tag engine and the output files it refers to *)

\* the name of the TXT output file
TxtPath == <<"g", ".", "t", "x", "t">>

\* the pieces of these templates: text, the tag of the grain properties
\* and the tag of the first declaration
FilePieces == { <<"x">>, DRI_TAG_GRAIN_PROPERTIES, TagAt(1) }

\* each of the two output files is not configured, configured and missing,
\* or configured and on disk
InitFiles ==
    /\ InitRun
    /\ pc = "read"
    /\ DeclarationsGiven(MaxDriDecl, {<<"SCALARS", <<>>>>, <<"FIELD", <<"f", "1">>>>}, 0)
    /\ columns = DefaultColumns
    /\ arr = [header |-> <<>>, dataType |-> "int", array |-> <<>>]
    /\ tpl_in \in Templates(FilePieces, MaxPieces)
    /\ f_vtk \in {<<>>, VtkPath}
    /\ f_txt \in {<<>>, TxtPath}
    /\ vtk_exists \in {f_vtk # <<>>, FALSE}
    /\ txt_exists \in {f_txt # <<>>, FALSE}
    /\ makePathsAbsolute \in BOOLEAN

SpecFiles == InitFiles /\ [][NextDri]_vars

----------------------------------------------------------------------------
(* The tag engine on templates of implicit tags *)

\* the pieces of these templates: text and the implicit tags
ImplicitPieces == { <<"x">>, DRI_TAG_CELLS[1], DRI_TAG_CELLS[2], DRI_TAG_CELLS[3],
                    DRI_TAG_SPACING }

\* models of 3 x 3 x 1 cells of edge 1 or of 10 x 10 x 10 cells of edge 0.5,
\* taken as of 1, 2 or 3 dimensions, with SCALARS attributes
InitImplicit ==
    /\ InitWriters
    /\ InitUnread
    /\ pc = "read"
    /\ dim \in 1..3
    /\ \/ dimensions = <<4, 4, 2>> /\ celldata_size = 9 /\ spacing = <<Unit, Unit, Unit>>
       \/ dimensions = <<11, 11, 11>> /\ celldata_size = 1000 /\ spacing = <<5, 5, 5>>
    /\ origin = <<0, 0, 0>>
    /\ DeclarationsGiven(MaxDriDecl, {<<"SCALARS", <<>>>>}, 0)
    /\ columns = DefaultColumns
    /\ arr = [header |-> <<>>, dataType |-> "int", array |-> <<>>]
    /\ tpl_in \in Templates(ImplicitPieces, MaxPieces)
    /\ f_vtk = VtkPath
    /\ f_txt = <<>>
    /\ vtk_exists = TRUE
    /\ txt_exists = FALSE
    /\ makePathsAbsolute = FALSE

SpecImplicit == InitImplicit /\ [][NextDri]_vars

----------------------------------------------------------------------------
(* hdf2mic.py: a conversion run, from Reader.read to the last writer *)

\* the lines TxtWriter.write writes for the grains from k on: "# k", the
\* phase of the grain if there are phases, every column of its angles if
\* there are angles
RECURSIVE TxtLines(_, _, _, _)
TxtLines(k, count, ph, an) ==
    IF k > count THEN <<>>
    ELSE << [grain |-> k, what |-> "#", col |-> 0] >>
           \o (IF ph.isArray THEN << [grain |-> k, what |-> "phase", col |-> 1] >>
               ELSE <<>>)
           \o (IF an.isArray
               THEN [c \in 1..an.cols |-> [grain |-> k, what |-> "angle", col |-> c]]
               ELSE <<>>)
           \o TxtLines(k + 1, count, ph, an)

\* the content of the output files before the run: old text if they are on
\* disk
OldTxt(stale) == IF stale THEN << [grain |-> 0, what |-> "old", col |-> 0] >> ELSE <<>>
OldVtk(stale) == IF stale THEN << TextLine(<<"o", "l", "d">>) >> ELSE <<>>
OldDri(stale) == IF stale THEN <<"o", "l", "d">> ELSE <<>>

\* main going on to the writers although Reader.read raised
MainReturnAfterError ==
    /\ pc \in {"model", "failed"}
    /\ Running("read")
    /\ todo' = Tail(todo)
    /\ pc' = "main"
    /\ UNCHANGED <<values, celldata, err, vtkVars, driVars, cfgVars, rotVars, geoVars,
                   grainVars, f_txt, txt_exists, txt_file, time, queried, vtk_exists>>

\* "data = reader.read(args, sverbose)" returns and the reader is left
MainReturn ==
    /\ pc = "model"
    /\ Running("read")
    /\ todo' = Tail(todo)
    /\ pc' = "main"
    /\ UNCHANGED <<values, celldata, err, vtkVars, driVars, cfgVars, rotVars, geoVars,
                   grainVars, f_txt, txt_exists, txt_file, time, queried, vtk_exists>>

\* "write data to TXT file": the whole run of the TxtWriter, or
\* fout.txt = ""; range(data.grain_count) raises TypeError on None
MainTxt ==
    /\ pc = "main"
    /\ Running("txt")
    /\ IF ~args.txt
       THEN /\ f_txt' = <<>>
            /\ todo' = Tail(todo)
            /\ UNCHANGED <<err, pc, txt_exists, txt_file>>
       ELSE /\ f_txt' = TxtPath
            /\ txt_exists' = TRUE
            /\ IF grain_count = -1
               THEN /\ txt_file' = <<>>
                    /\ err' = "TypeError"
                    /\ pc' = "failed"
                    /\ todo' = todo
               ELSE /\ txt_file' = TxtLines(1, grain_count, phases, angles)
                    /\ todo' = Tail(todo)
                    /\ UNCHANGED <<err, pc>>
    /\ UNCHANGED <<values, celldata, vtkVars, driVars, cfgVars, rotVars, geoVars,
                   grainVars, time, queried, vtk_exists>>

\* "write data to VTK file": the VtkWriter is made, or fout.vtk = ""
MainVtk ==
    /\ pc = "main"
    /\ Running("vtk")
    /\ IF args.vtk
       THEN /\ f_vtk' = VtkPath
            /\ pc' = "built"
            /\ todo' = todo
       ELSE /\ f_vtk' = <<>>
            /\ todo' = Tail(todo)
            /\ pc' = pc
    /\ UNCHANGED <<values, celldata, err, vtkVars, template, dri_file, di, cfgVars, rotVars,
                   geoVars, grainVars, f_txt, txt_exists, txt_file, time, queried,
                   vtk_exists>>

\* the with-statement of a writer is left
MainWriterDone ==
    /\ \/ pc = "vtk_done" /\ Running("vtk")
       \/ pc = "dri_done" /\ Running("dri")
    /\ todo' = Tail(todo)
    /\ pc' = "main"
    /\ UNCHANGED <<values, celldata, err, vtkVars, driVars, cfgVars, rotVars, geoVars,
                   grainVars, f_txt, txt_exists, txt_file, time, queried, vtk_exists>>

\* "write MICRESS driving file if template has been supplied"
MainDri ==
    /\ pc = "main"
    /\ Running("dri")
    /\ IF args.dri
       THEN pc' = "built" /\ todo' = todo
       ELSE pc' = pc /\ todo' = Tail(todo)
    /\ UNCHANGED <<values, celldata, err, vtkVars, driVars, cfgVars, rotVars, geoVars,
                   grainVars, f_txt, txt_exists, txt_file, time, queried, vtk_exists>>

\* print("Done.")
MainDone ==
    /\ pc = "main"
    /\ todo = <<>>
    /\ pc' = "end"
    /\ UNCHANGED <<values, celldata, err, vtkVars, driVars, envVars>>

\* the arguments of the runs: dim 2, 3 or 4, 3 x 3 x 1 or 2 x 3 x 4 cells,
\* rotated or not, a spacing that is cubic or not, every choice of outputs
MainArgs ==
    [dim : {2, 3, 4}, time : {TimeZero},
     rotate : BOOLEAN, rotateCellDataValues : {<<>>}, clip : {FALSE},
     cells : {<<3, 3, 1>>, <<2, 3, 4>>},
     spacing : {<<Unit, Unit, Unit>>, <<Unit, 5, Unit>>},
     origin : {<<0, 0, 0>>},
     angles : {a \in AnglesChoices : a.ndim = 2 /\ a.rows # 3},
     phases : {p \in PhasesChoices : p.ndim = 2}, geo : {GeometryPaths},
     missing : {"none"}, stale : BOOLEAN,
     txt : BOOLEAN, vtk : BOOLEAN, dri : BOOLEAN]

\* the declarations of the runs: none, one attribute with a tag, an
\* attribute and a FIELD, a FIELD without a field spec
MainDeclarations ==
    { MkValues(<<>>, 0, 0, {}),
      MkValues(<< <<"SCALARS", <<>>>> >>, 0, 1, {1}),
      MkValues(<< <<"SCALARS", <<>>>>, <<"FIELD", <<"f", "1">>>> >>, 1, 2, {1}),
      MkValues(<< <<"FIELD", <<"f", "1">>>> >>, 0, 1, {1}) }

InitMain ==
    /\ NoRotation
    /\ handles = <<>>
    /\ pc = "read_dim"
    /\ todo = <<"read", "txt", "vtk", "dri">>
    /\ args \in MainArgs
    /\ values \in MainDeclarations
    /\ celldata = <<>>
    /\ err = "none"
    /\ queried = <<>>
    /\ txt_file = OldTxt(args.stale)
    /\ vtk_file = OldVtk(args.stale)
    /\ dri_file = OldDri(args.stale)
    /\ txt_exists = args.stale
    /\ vtk_exists = args.stale
    /\ header_field = <<>>
    /\ vi = 1 /\ gi = 1 /\ ti = 1 /\ di = 1
    /\ template = <<>>
    /\ angles = None
    /\ phases = None
    /\ grain_count = -1
    /\ time = -1
    /\ dim = 0
    /\ dimensions = <<>>
    /\ spacing = <<>>
    /\ origin = <<>>
    /\ celldata_size = -1
    /\ columns = DefaultColumns
    /\ arr = [header |-> <<>>, dataType |-> "int", array |-> <<>>]
    /\ tpl_in \in { << <<"x">>, TagAt(1) >>, <<>> }
    /\ f_vtk = VtkPath /\ f_txt = TxtPath
    /\ makePathsAbsolute = FALSE

NextMain ==
    \/ ReadDim
    \/ ReadTime
    \/ ReadAngles
    \/ ReadPhases
    \/ groups_celldata_setter
    \/ ReadDimensions
    \/ ReadOrigin
    \/ ReadSpacing
    \/ MainReturn
    \/ MainTxt
    \/ MainVtk
    \/ (Running("vtk") /\ VtkEnter)
    \/ VtkWriteHeader
    \/ VtkWriteNonField
    \/ VtkFieldsBegin
    \/ VtkWriteFieldHeader
    \/ VtkWriteFieldArray
    \/ VtkExit
    \/ MainWriterDone
    \/ MainDri
    \/ (Running("dri") /\ DriEnter)
    \/ DriReadTemplate
    \/ DriReplaceCells
    \/ DriReplaceSpacing
    \/ DriReplaceGrainProperties
    \/ DriCheckVtk
    \/ DriReplaceUserTag
    \/ DriSave
    \/ DriExit
    \/ MainDone

SpecMain == InitMain /\ [][NextMain]_vars

----------------------------------------------------------------------------
(* The two writers of the grid and of the driving file in either order *)

\* the arguments of these runs: both outputs are configured, the output
\* files of an earlier run are on disk or not
OrderArgs ==
    [dim : {2, 3}, time : {TimeZero},
     rotate : {FALSE}, rotateCellDataValues : {<<>>}, clip : {FALSE},
     cells : {<<3, 3, 1>>},
     spacing : {<<Unit, Unit, Unit>>},
     origin : {<<0, 0, 0>>},
     angles : {a \in AnglesChoices : a.ndim = 2 /\ a.rows # 3},
     phases : {p \in PhasesChoices : p.ndim = 2 /\ p.rows # 3}, geo : {GeometryPaths},
     missing : {"none"}, stale : BOOLEAN,
     txt : BOOLEAN, vtk : {TRUE}, dri : {TRUE}]

\* the templates of these runs: text, the tag of the first declaration and
\* the tag of the first axis
OrderPieces == { <<"x">>, TagAt(1), DRI_TAG_CELLS[1] }

\* a run of main, and a run that makes the DriWriter before the VtkWriter
InitOrder ==
    /\ InitData
    /\ pc = "read_dim"
    /\ todo \in { <<"read", "txt", "vtk", "dri">>, <<"read", "txt", "dri", "vtk">> }
    /\ args \in OrderArgs
    /\ values \in MainDeclarations
    /\ txt_exists = args.stale
    /\ vtk_exists = args.stale
    /\ columns = DefaultColumns
    /\ arr = [header |-> <<>>, dataType |-> "int", array |-> <<>>]
    /\ tpl_in \in Templates(OrderPieces, 2)
    /\ f_vtk = VtkPath /\ f_txt = TxtPath
    /\ makePathsAbsolute \in BOOLEAN

SpecOrder == InitOrder /\ [][NextMain]_vars

----------------------------------------------------------------------------
(* The setters of angles and phases on a Data object, in any order *)

\* the most rows of an array of orientations or of phases
MaxGrains == 3

\* None, and the arrays of up to MaxGrains rows with one of the numbers of
\* columns widths
GrainArrays(widths) ==
    {None} \cup {[isArray |-> TRUE, rows |-> r, cols |-> c] : r \in 0..MaxGrains, c \in widths}

InitGrains ==
    /\ InitRun
    /\ pc = "data"
    /\ values = MkValues(<<>>, 0, 0, {})
    /\ columns = DefaultColumns
    /\ arr = [header |-> <<>>, dataType |-> "int", array |-> <<>>]
    /\ tpl_in = <<>>
    /\ f_vtk = <<>> /\ f_txt = <<>>
    /\ vtk_exists = FALSE /\ txt_exists = FALSE
    /\ makePathsAbsolute = FALSE

\* data.angles = value, for one or three columns
AssignAngles ==
    /\ pc = "data"
    /\ \E value \in GrainArrays({1, 3}) : SetAngles(value)
    /\ UNCHANGED <<values, celldata, vtkVars, driVars, cfgVars, rotVars, geoVars,
                   mainVars, vtk_exists>>

\* data.phases = value, for one or two columns
AssignPhases ==
    /\ pc = "data"
    /\ \E value \in GrainArrays({1, 2}) : SetPhases(value)
    /\ UNCHANGED <<values, celldata, vtkVars, driVars, cfgVars, rotVars, geoVars,
                   mainVars, vtk_exists>>

NextGrains ==
    \/ AssignAngles
    \/ AssignPhases

SpecGrains == InitGrains /\ [][NextGrains]_vars

----------------------------------------------------------------------------
(* rotMat: the calls of rotate *)

\* the angles range over -90 * MaxQuarters .. 90 * MaxQuarters
MaxQuarters == 5

\* rotate: the loop that fills eulerRad
RotateNormalise ==
    /\ pc = "rotate"
    /\ eulerRad' = [i \in 1..3 |-> Normalise(eulerDegree[i])]
    /\ pc' = "rotate_matrix"
    /\ UNCHANGED <<values, celldata, err, vtkVars, driVars, cfgVars, geoVars,
                   grainVars, mainVars, vtk_exists, conversions, orientation, eulerDegree,
                   toMICRESS, R, rotVal>>

\* rotate: R = eulerAnglesToRotationMatrix(eulerRad, toMICRESS)
RotateMatrix ==
    /\ pc = "rotate_matrix"
    /\ R' = eulerAnglesToRotationMatrix(eulerRad, toMICRESS)
    /\ pc' = "rotate_angles"
    /\ UNCHANGED <<values, celldata, err, vtkVars, driVars, cfgVars, geoVars,
                   grainVars, mainVars, vtk_exists, conversions, orientation, eulerDegree,
                   toMICRESS, eulerRad, rotVal>>

\* rotate: return rotationMatrixToEulerAngles(R)
RotateReturn ==
    /\ pc = "rotate_angles"
    /\ rotVal' \in rotationMatrixToEulerAngles(R)
    /\ pc' = "rotated"
    /\ UNCHANGED <<values, celldata, err, vtkVars, driVars, cfgVars, geoVars,
                   grainVars, mainVars, vtk_exists, conversions, orientation, eulerDegree,
                   toMICRESS, eulerRad, R>>

\* rotate(rotate(v, True), False): the call of rotate on what the first
\* call returned
RotateBack ==
    /\ pc = "rotated"
    /\ toMICRESS
    /\ eulerDegree' = rotVal
    /\ toMICRESS' = FALSE
    /\ pc' = "rotate"
    /\ UNCHANGED <<values, celldata, err, vtkVars, driVars, cfgVars, geoVars,
                   grainVars, mainVars, vtk_exists, conversions, orientation, eulerRad, R,
                   rotVal>>

\* the angles of the runs
Quarters == {90 * q : q \in (-MaxQuarters)..MaxQuarters}

InitRotate ==
    /\ NoOutput
    /\ handles = <<>>
    /\ InitUnread
    /\ dim = 3
    /\ dimensions = <<>>
    /\ spacing = <<>>
    /\ origin = <<>>
    /\ celldata_size = -1
    /\ pc = "rotate"
    /\ orientation \in [1..3 -> Quarters]
    /\ eulerDegree = orientation
    /\ toMICRESS = TRUE
    /\ eulerRad = <<>>
    /\ R = <<>>
    /\ rotVal = <<>>
    /\ conversions = {}
    /\ values = MkValues(<<>>, 0, 0, {})
    /\ columns = DefaultColumns
    /\ arr = [header |-> <<>>, dataType |-> "int", array |-> <<>>]
    /\ tpl_in = <<>>
    /\ f_vtk = <<>> /\ f_txt = <<>>
    /\ vtk_exists = FALSE /\ txt_exists = FALSE
    /\ makePathsAbsolute = FALSE

NextRotate ==
    \/ RotateNormalise
    \/ RotateMatrix
    \/ RotateReturn
    \/ RotateBack

SpecRotate == InitRotate /\ [][NextRotate]_vars

----------------------------------------------------------------------------
(* Properties of the builder and of the serializer (SpecBuild) *)

\* Data.celldata has been set by the builder
Built == pc \notin {"read", "failed"}

\* the position in the declaration lists of the declaration a tuple was
\* built from: the one whose path holds the tuple's array
DeclIndex(tup) ==
    CHOOSE d \in 1..Len(values.paths) : Dataset(values.paths[d]) = tup.array

\* C1: whenever the builder accepts a list of declarations, the sequence it
\* hands to Data holds one attribute per declaration, ordered by kind with
\* SCALARS < VECTORS < NORMALS < TENSORS < FIELD, and two attributes of the
\* same kind other than FIELD are in the order of their declarations.
C1_KindOrderStable ==
    Built =>
        /\ Len(celldata) = Len(values.paths)
        /\ \A i, j \in 1..Len(celldata) :
              i < j =>
                /\ VTK_DATASET_ATTRIBUTE_TYPE_ORDER(celldata[i].datasetAttributeType)
                     <= VTK_DATASET_ATTRIBUTE_TYPE_ORDER(celldata[j].datasetAttributeType)
                /\ (/\ celldata[i].datasetAttributeType = celldata[j].datasetAttributeType
                    /\ celldata[i].datasetAttributeType # "FIELD")
                     => DeclIndex(celldata[i]) < DeclIndex(celldata[j])

\* a list is built whose kinds are declared out of order and that declares
\* two attributes of one kind other than FIELD
C1_Witness ==
    /\ pc = "built"
    /\ \E i, j \in 1..Len(values.paths) :
          /\ i < j
          /\ VTK_DATASET_ATTRIBUTE_TYPE_ORDER(values.datasetAttributeTypes[i])
               > VTK_DATASET_ATTRIBUTE_TYPE_ORDER(values.datasetAttributeTypes[j])
    /\ \E i, j \in 1..Len(values.paths) :
          /\ i < j
          /\ values.datasetAttributeTypes[i] = values.datasetAttributeTypes[j]
          /\ values.datasetAttributeTypes[i] # "FIELD"

\* C2: in every sequence the builder produces the FIELD entries are a suffix
\* and are ordered by dataName, so the arrays of one FIELD are contiguous.
C2_FieldSuffixByName ==
    Built =>
        \A i, j \in 1..Len(celldata) :
            i < j =>
              /\ celldata[i].datasetAttributeType = "FIELD"
                   => /\ celldata[j].datasetAttributeType = "FIELD"
                      /\ ~StrLess(celldata[j].dataName, celldata[i].dataName)
              /\ (/\ celldata[i].datasetAttributeType = "FIELD"
                  /\ celldata[i].dataName = celldata[j].dataName)
                   => \A k \in i..j : celldata[k].dataName = celldata[i].dataName

\* three FIELDs are built that were declared as f2, f1, f2 with an attribute
\* of another kind declared behind one of them
C2_Witness ==
    /\ pc = "built"
    /\ \E i, j, k \in 1..Len(values.paths) :
          /\ i < j /\ j < k
          /\ values.datasetAttributeTypes[i] = "FIELD"
          /\ values.datasetAttributeTypes[j] = "FIELD"
          /\ values.datasetAttributeTypes[k] # "FIELD"
          /\ StrLess(values.dataNames[j], values.dataNames[i])

\* C3: the attribute built from paths[i] and dataNames[i] carries tags[i].
C3_TagOfDeclaration ==
    Built =>
        \A i \in 1..Len(celldata) :
            celldata[i].tag = values.tags[DeclIndex(celldata[i])]

\* C4: the k-th entry of fieldArrays is attached to the k-th FIELD of the
\* declaration lists, and an attribute that is no FIELD gets none.
C4_FieldSpecOfDeclaration ==
    Built =>
        \A i \in 1..Len(celldata) :
            LET d == DeclIndex(celldata[i])
                k == Cardinality({e \in 1..d : values.datasetAttributeTypes[e] = "FIELD"})
            IN  IF celldata[i].datasetAttributeType = "FIELD"
                THEN /\ celldata[i].arrayName = MatchFieldArray(values.fieldArrays[k]).name
                     /\ celldata[i].numComponents
                          = IntOfDigits(MatchFieldArray(values.fieldArrays[k]).digits, 0)
                ELSE celldata[i].len = 5

RECURSIVE Blocks(_, _)
\* The blocks of a sequence of lines: a line of text opens a block (the
\* second line of a SCALARS header does not), a line of numbers belongs to
\* the block that is open.
Blocks(lines, acc) ==
    IF lines = <<>> THEN acc
    ELSE LET l == Head(lines)
         IN  IF l.text = <<>>
             THEN Blocks(Tail(lines),
                         [acc EXCEPT ![Len(acc)].array = @ \o l.vals])
             ELSE IF l.text = <<"L", "O", "O", "K", "U", "P", "_", "T", "A", "B", "L", "E", " ", "d", "e", "f", "a", "u", "l", "t">>
             THEN Blocks(Tail(lines), acc)
             ELSE Blocks(Tail(lines), Append(acc, [head |-> l.text, array |-> <<>>]))

\* the blocks of the VTK file behind the eight lines of its header
FileBlocks == Blocks(SubSeq(vtk_file, Len(FileHeader) + 1, Len(vtk_file)), <<>>)

IsGroupHeader(text) == Len(text) >= 6 /\ SubSeq(text, 1, 6) = <<"F", "I", "E", "L", "D", " ">>

\* the first line of the header of the block of a tuple
BlockHead(tup) ==
    IF tup.datasetAttributeType = "FIELD"
    THEN ArrayHeader(tup.arrayName, tup.numComponents,
                     Len(tup.array) \div tup.numComponents, tup.dataType)[1].text
    ELSE AttributeHeader(tup.datasetAttributeType, tup.dataName, tup.dataType)[1].text

\* the lines the serializer is to write for the FIELDs names[g], names[g+1], ...
RECURSIVE ExpectedFieldLines(_, _)
ExpectedFieldLines(names, g) ==
    IF g > Len(names) THEN <<>>
    ELSE LET members == {i \in 1..Len(celldata) :
                            /\ celldata[i].datasetAttributeType = "FIELD"
                            /\ celldata[i].dataName = names[g]}
             first == CHOOSE i \in members : \A m \in members : i <= m
             arrays == [m \in 1..Cardinality(members) |->
                          WriteArrayLines(<<TextLine(BlockHead(celldata[first + m - 1]))>>,
                                          celldata[first + m - 1].dataType,
                                          celldata[first + m - 1].array, columns)]
             RECURSIVE Concat(_, _)
             Concat(ss, m) == IF m > Len(ss) THEN <<>> ELSE ss[m] \o Concat(ss, m + 1)
         IN  <<TextLine(<<"F", "I", "E", "L", "D", " ">> \o names[g] \o <<" ">>
                        \o StrOfNat(Cardinality(members)))>>
               \o Concat(arrays, 1) \o ExpectedFieldLines(names, g + 1)

\* the index of the first line of the file that is the header of a FIELD
\* (one more than the length of the file if there is none)
FirstGroupLine ==
    IF \E i \in 1..Len(vtk_file) : IsGroupHeader(vtk_file[i].text)
    THEN CHOOSE i \in 1..Len(vtk_file) :
            /\ IsGroupHeader(vtk_file[i].text)
            /\ \A j \in 1..(i - 1) : ~IsGroupHeader(vtk_file[j].text)
    ELSE Len(vtk_file) + 1

\* C7: for every FIELD of the model the file holds one line
\* "FIELD <name> <number of arrays>" followed by the blocks of the arrays of
\* that FIELD in the order of the builder: the part of the written file
\* from its first FIELD line on is exactly these lines, FIELD by FIELD.
C7_FieldGroupHeaders ==
    pc = "vtk_done" =>
        SubSeq(vtk_file, FirstGroupLine, Len(vtk_file))
            = ExpectedFieldLines(FieldDataNames(celldata), 1)

----------------------------------------------------------------------------
(* Properties of _write_array (SpecArray) *)

RECURSIVE FlatValues(_)
\* the numbers of a sequence of lines, in the order they are written
FlatValues(lines) ==
    IF lines = <<>> THEN <<>> ELSE Head(lines).vals \o FlatValues(Tail(lines))

\* C9: for n values and c > 0 columns _write_array writes the header, then
\* n div c lines of c values, then one more line of n mod c values if and
\* only if n mod c > 0, and the values of the lines are those of the array
\* in its order.
C9_WrappedArray ==
    pc = "array_done" =>
        LET n == Len(arr.array)
            c == columns
            h == Len(arr.header)
        IN  /\ SubSeq(vtk_file, 1, h) = arr.header
            /\ Len(vtk_file) = h + (n \div c) + (IF n % c > 0 THEN 1 ELSE 0)
            /\ \A r \in 1..(n \div c) :
                  /\ vtk_file[h + r].text = <<>>
                  /\ Len(vtk_file[h + r].vals) = c
            /\ n % c > 0 =>
                  /\ vtk_file[Len(vtk_file)].text = <<>>
                  /\ Len(vtk_file[Len(vtk_file)].vals) = n % c
            /\ FlatValues(SubSeq(vtk_file, h + 1, Len(vtk_file))) = arr.array

\* an array is written on two full lines and a shorter one
C9_Witness ==
    /\ pc = "array_done"
    /\ Len(arr.array) \div columns = 2
    /\ Len(arr.array) % columns > 0
    /\ Len(vtk_file) = Len(arr.header) + 3

\* the number of declarations of the kind FIELD
FieldEntries ==
    Cardinality({i \in 1..Len(values.datasetAttributeTypes) :
                   values.datasetAttributeTypes[i] = "FIELD"})

\* C20: for declarations that are well-formed otherwise, the setter ends
\* with Hdf2Mic_InitArgError and without cell data exactly when there are
\* more declarations of the kind FIELD than field specs; with as many
\* field specs or more it sets the cell data.
C20_FieldSpecCount ==
    pc # "read" =>
        /\ FieldEntries > Len(values.fieldArrays)
              <=> (pc = "failed" /\ err = "Hdf2Mic_InitArgError" /\ celldata = <<>>)
        /\ FieldEntries <= Len(values.fieldArrays)
              => Len(celldata) = Len(values.paths)

\* two FIELDs and one field spec were rejected, and in another run one
\* FIELD with one field spec was accepted
C20_Witness ==
    \/ /\ pc = "failed"
       /\ FieldEntries = 2
       /\ Len(values.fieldArrays) = 1
       /\ err = "Hdf2Mic_InitArgError"
    \/ /\ pc = "built"
       /\ FieldEntries = 1
       /\ Len(values.fieldArrays) = 1
       /\ Len(celldata) = 1

\* the two sorts of the setter, applied to a list of tuples: the sort by
\* kind, then the sort of the FIELD entries at its end by dataName
Classified(tuples) ==
    LET count ==
            CountFieldArrays([i \in 1..Len(tuples) |-> tuples[i].datasetAttributeType])
        sorted == SortByKind(tuples)
    IN  IF count > 0 THEN SortFieldsAtEnd(sorted, count) ELSE sorted

\* C25: the sort by kind followed by the sort of the FIELD entries by
\* dataName, applied to the sequence the builder has produced, returns that
\* sequence: the same elements at the same positions.
C25_ClassificationIdempotent ==
    Built => Classified(celldata) = celldata

\* a sequence is built that holds two attributes of one kind other than
\* FIELD and two FIELD entries of one dataName, declared out of order
C25_Witness ==
    /\ pc = "built"
    /\ \E i, j \in 1..Len(celldata) :
          /\ i < j
          /\ celldata[i] # celldata[j]
          /\ celldata[i].datasetAttributeType = "FIELD"
          /\ celldata[j].datasetAttributeType = "FIELD"
          /\ celldata[i].dataName = celldata[j].dataName
    /\ \E i, j \in 1..Len(values.paths) :
          /\ i < j
          /\ VTK_DATASET_ATTRIBUTE_TYPE_ORDER(values.datasetAttributeTypes[i])
               > VTK_DATASET_ATTRIBUTE_TYPE_ORDER(values.datasetAttributeTypes[j])

----------------------------------------------------------------------------
(* Properties of the tag engine (SpecDri) *)

\* C5: when the tag engine processes an attribute without a tag, the
\* template text after the step is the template text before it.
C5_UntaggedLeavesTemplate ==
    [][(pc = "dri_user" /\ celldata[di].tag = <<>>) => template' = template]_vars

\* the tags the tag engine knows: the implicit tags, the tag of the grain
\* properties and the tags of the attributes
RecognisedTags ==
    {DRI_TAG_CELLS[i] : i \in 1..3}
      \cup {DRI_TAG_SPACING, DRI_TAG_GRAIN_PROPERTIES}
      \cup {celldata[i].tag : i \in {j \in 1..Len(celldata) : celldata[j].tag # <<>>}}

RECURSIVE PassesThrough(_, _)
\* text is the pieces in their order, every piece that is not a recognised
\* tag as it is and any text in the place of a recognised tag
PassesThrough(pieces, text) ==
    IF pieces = <<>> THEN text = <<>>
    ELSE IF Head(pieces) \in RecognisedTags
         THEN \E k \in 0..Len(text) :
                 PassesThrough(Tail(pieces), SubSeq(text, k + 1, Len(text)))
         ELSE /\ OccursAt(text, Head(pieces), 1)
              /\ PassesThrough(Tail(pieces),
                               SubSeq(text, Len(Head(pieces)) + 1, Len(text)))

\* C6: the driving output is the template with every part that is not an
\* occurrence of a recognised tag unchanged and in its place; a tag of
\* the template that no attribute carries is in the output as it was.
C6_PassThrough ==
    pc = "dri_done" => PassesThrough(tpl_in, dri_file)

\* "<gridFilePath> <attributeName>", followed by " <fieldArrayName>" for an
\* array of a FIELD
TagReplacement(tupl, vtk) ==
    vtk \o <<" ">> \o tupl.dataName
        \o (IF tupl.datasetAttributeType = "FIELD"
            THEN <<" ">> \o tupl.arrayName ELSE <<>>)

\* C10: with the grid file configured and present, the step of the tag
\* engine for an attribute with a tag replaces every occurrence of the tag
\* in the template by the path of the grid file, the name of the attribute
\* and, for an array of a FIELD, the name of the array.
C10_TagReplaced ==
    [][(pc = "dri_user" /\ celldata[di].tag # <<>>)
          => /\ pc' # "failed"
             /\ template' = StrReplace(template, celldata[di].tag,
                                       TagReplacement(celldata[di], f_vtk'))]_vars

----------------------------------------------------------------------------
(* Properties of the implicit tags (SpecImplicit) *)

\* the text in the place of a piece of the template once the implicit tags
\* are replaced: the cell count of the axis for the tag of an axis below
\* dim, the spacing for the tag of the spacing, the piece itself otherwise
ImplicitText(piece) ==
    IF \E i \in 1..dim : piece = DRI_TAG_CELLS[i]
    THEN LET i == CHOOSE j \in 1..dim : piece = DRI_TAG_CELLS[j]
         IN  StrOfNat(dimensions[i] - 1)
    ELSE IF piece = DRI_TAG_SPACING
         THEN LET whole == spacing[1] \div Unit
                  tenth == spacing[1] % Unit
              IN  IF tenth = 0 THEN StrOfNat(whole)
                  ELSE StrOfNat(whole) \o <<".", DigitChar(tenth)>>
         ELSE piece

\* C11: once the implicit tags are processed, every occurrence of the tag
\* of an axis i < dim in the template is replaced by dimensions[i] - 1,
\* every occurrence of <spacing> by the spacing, and the tags of the axes
\* from dim on and all other text are as they were.
C11_ImplicitTags ==
    pc = "dri_txt" =>
        template = JoinPieces([k \in 1..Len(tpl_in) |-> ImplicitText(tpl_in[k])])

\* 10 x 10 x 10 cells of edge 0.5 in two dimensions: <cellsX><cellsX> is
\* 1010, and in another run <cellsZ><spacing> is <cellsZ>0.5
C11_Witness ==
    /\ pc = "dri_txt"
    /\ dim = 2
    /\ dimensions[1] = 11
    /\ spacing[1] = 5
    /\ \/ tpl_in = <<DRI_TAG_CELLS[1], DRI_TAG_CELLS[1]>> /\ template = <<"1", "0", "1", "0">>
       \/ tpl_in = <<DRI_TAG_CELLS[3], DRI_TAG_SPACING>> /\ template = <<"<", "c", "e", "l", "l", "s", "Z", ">", "0", ".", "5">>

----------------------------------------------------------------------------
(* Properties of the tag engine and the output files (SpecFiles) *)

\* an output file is configured and not on disk
OutputFileMissing ==
    \/ f_txt # <<>> /\ ~txt_exists
    \/ f_vtk # <<>> /\ ~vtk_exists

\* C12: a run of DriWriter.write with a configured output file (grain
\* properties or grid) that is not on disk ends with
\* Hdf2Mic_DrivingFileTaggingError and nothing is written to the driving
\* output; with the configured files on disk a template that is not empty
\* does not end with that error.
C12_MissingOutputFile ==
    /\ (pc = "dri_done" /\ OutputFileMissing) => FALSE
    /\ (pc = "failed" /\ OutputFileMissing)
          => err = "Hdf2Mic_DrivingFileTaggingError" /\ dri_file = <<>>
    /\ (pc = "failed" /\ ~OutputFileMissing /\ JoinPieces(tpl_in) # <<>>)
          => err # "Hdf2Mic_DrivingFileTaggingError"

\* a run with the TXT file on disk and the grid file missing has failed
\* after the tag of the grain properties was replaced
C12_Witness ==
    /\ pc = "failed"
    /\ err = "Hdf2Mic_DrivingFileTaggingError"
    /\ f_txt # <<>> /\ txt_exists
    /\ f_vtk # <<>> /\ ~vtk_exists
    /\ Contains(template, TxtPath)
    /\ dri_file = <<>>

\* the template has no tag of the grain properties
TemplateLacksGrainTag ==
    \A k \in 1..Len(tpl_in) : tpl_in[k] # DRI_TAG_GRAIN_PROPERTIES

\* C13: with a grain-property file configured no run on a
\* template without the tag <grain-properties> ends with a driving output
\* written.
C13_TemplateWithoutTagRejected ==
    ~(pc = "dri_done" /\ f_txt # <<>> /\ TemplateLacksGrainTag)

----------------------------------------------------------------------------
(* Properties of a conversion run (SpecMain) *)

\* the three output files are as they were before the run
OutputsUntouched ==
    /\ txt_file = OldTxt(args.stale)
    /\ vtk_file = OldVtk(args.stale)
    /\ dri_file = OldDri(args.stale)
    /\ txt_exists = args.stale
    /\ vtk_exists = args.stale

\* C14: as long as Reader.read has not returned the model, and for ever if
\* it raised an error, no output file is created, truncated or written:
\* read has returned when main has taken it off the components to run, and
\* it sets the spacing last.
C14_NoOutputBeforeModel ==
    (Running("read") \/ spacing = <<>>) => OutputsUntouched

\* a run was ended by the spacing setter, the last of Reader.read, with
\* old output files on disk
C14_Witness ==
    /\ pc = "failed"
    /\ err = "ValueError"
    /\ args.stale /\ args.txt /\ args.vtk /\ args.dri
    /\ celldata # <<>>
    /\ OutputsUntouched

----------------------------------------------------------------------------
(* Properties of the order of the writers (SpecOrder) *)

RECURSIVE CellsReplaced(_, _)
\* text with the tags of the axes from i on replaced
CellsReplaced(text, i) ==
    IF i > dim THEN text
    ELSE CellsReplaced(Replace(text, DRI_TAG_CELLS[i], StrOfNat(dimensions[i] - 1)),
                       i + 1)

RECURSIVE UserTagsReplaced(_, _, _)
\* text with the tags of the attributes from i on replaced, vtk being the
\* path of the grid file
UserTagsReplaced(text, i, vtk) ==
    IF i > Len(celldata) THEN text
    ELSE UserTagsReplaced(Replace(text, celldata[i].tag,
                                  UserReplacement(celldata[i], vtk)),
                          i + 1, vtk)

\* the error and the driving output of the tag engine on a model whose
\* grid file is on disk
DrivingOutcome ==
    IF JoinPieces(tpl_in) = <<>>
    THEN <<"Hdf2Mic_DrivingFileTaggingError", <<>>>>
    ELSE IF \E i \in 1..Len(celldata) : FieldArrayNameGiven(celldata[i])
    THEN <<"TypeError", <<>>>>
    ELSE LET implicit == Replace(CellsReplaced(JoinPieces(tpl_in), 1),
                                 DRI_TAG_SPACING, NumberText(spacing[1]))
             grains == IF f_txt = <<>> THEN implicit
                       ELSE Replace(implicit, DRI_TAG_GRAIN_PROPERTIES,
                                    IF makePathsAbsolute THEN Abspath(f_txt) ELSE f_txt)
         IN  <<"none", UserTagsReplaced(grains, 1,
                          IF makePathsAbsolute THEN Abspath(VtkPath) ELSE VtkPath)>>

\* the tag engine has ended, with the driving output written or with an
\* error
DriEnded == Running("dri") /\ pc \in {"dri_done", "failed"}

\* C15: the tag engine needs the grid file on disk. Run after the
\* serializer, or with a grid file of an earlier run on disk, it ends with
\* the driving output of the model; run before the serializer with no grid
\* file on disk it ends with Hdf2Mic_DrivingFileTaggingError and writes no
\* driving output.
C15_TagEngineNeedsGridFile ==
    DriEnded =>
        <<err, dri_file>> = IF Len(todo) = 1 \/ args.stale THEN DrivingOutcome
                            ELSE <<"Hdf2Mic_DrivingFileTaggingError", <<>>>>

\* the tag engine ran first with no grid file on disk and failed on a
\* template that the run in the order of main turns into a driving output
C15_Witness ==
    /\ DriEnded
    /\ todo = <<"dri", "vtk">>
    /\ ~args.stale
    /\ pc = "failed"
    /\ err = "Hdf2Mic_DrivingFileTaggingError"
    /\ dri_file = <<>>
    /\ DrivingOutcome[1] = "none"
    /\ Contains(DrivingOutcome[2], VtkPath)

\* C15 (original statement): in either order of the serializer and the tag
\* engine the tag engine ends with the same outcome and the same driving
\* output.
C15_EitherOrder ==
    DriEnded => <<err, dri_file>> = DrivingOutcome

----------------------------------------------------------------------------
(* Properties of the geometry of the model (SpecMain) *)

\* the point counts of the cell counts c, the second and third exchanged
\* if exchanged is set
PointsOfCells(c, exchanged) ==
    IF exchanged THEN <<c[1] + 1, c[3] + 1, c[2] + 1>>
    ELSE <<c[1] + 1, c[2] + 1, c[3] + 1>>

RECURSIVE JoinNumbers(_)
\* ' '.join(map(str, vals)) for natural numbers
JoinNumbers(vals) ==
    IF vals = <<>> THEN <<>>
    ELSE IF Len(vals) = 1 THEN StrOfNat(vals[1])
    ELSE StrOfNat(vals[1]) \o <<" ">> \o JoinNumbers(Tail(vals))

\* the VtkWriter has written the header of the grid file
HeaderWritten == Len(vtk_file) >= Len(FileHeader)

\* C16: once the dimensions are set, dimensions[i] is the cell count of
\* the axis plus one, the second and third exchanged exactly when rotate is
\* set and dim = 3; the cell count of the model is the product of the
\* three cell counts and of dimensions[i] - 1; the line DIMENSIONS of the
\* grid file has these dimensions.
C16_PointCounts ==
    dimensions # <<>> =>
        /\ dimensions = PointsOfCells(args.cells, args.rotate /\ args.dim = 3)
        /\ celldata_size = args.cells[1] * args.cells[2] * args.cells[3]
        /\ celldata_size = (dimensions[1] - 1) * (dimensions[2] - 1) * (dimensions[3] - 1)
        /\ HeaderWritten =>
              /\ vtk_file[5].text = <<"D", "I", "M", "E", "N", "S", "I", "O", "N", "S">>
              /\ vtk_file[5].vals = dimensions
              /\ vtk_file[8].vals = <<celldata_size>>

\* 3 x 3 x 1 cells in a run of two dimensions with rotate set: the grid
\* file has the line "DIMENSIONS 4 4 2" and 9 cells; and 2 x 3 x 4 cells in
\* a run of three dimensions with rotate set have the dimensions 3, 5, 4
C16_Witness ==
    /\ HeaderWritten
    /\ args.rotate
    /\ \/ /\ args.cells = <<3, 3, 1>>
          /\ args.dim = 2
          /\ vtk_file[5].text \o <<" ">> \o JoinNumbers(vtk_file[5].vals)
               = <<"D", "I", "M", "E", "N", "S", "I", "O", "N", "S", " ", "4", " ", "4", " ", "2">>
          /\ celldata_size = 9
       \/ /\ args.cells = <<2, 3, 4>>
          /\ args.dim = 3
          /\ dimensions = <<3, 5, 4>>
          /\ celldata_size = 24

----------------------------------------------------------------------------
(* Properties of the setters of angles and phases (SpecGrains) *)

\* both are arrays and the numbers of their rows differ
RowCountsDiffer == angles.isArray /\ phases.isArray /\ angles.rows # phases.rows

\* C17: a setter of angles or phases ends with
\* Hdf2Mic_HDF5DatasetDimensionError exactly when, with its value, both are
\* arrays of different numbers of rows, whichever of the two it is; with
\* equal numbers of rows, whatever the numbers of columns, no setter fails.
C17_RowCountMismatch ==
    /\ pc = "failed" <=> RowCountsDiffer
    /\ pc = "failed" => err = "Hdf2Mic_HDF5DatasetDimensionError"
    /\ pc # "failed" => err = "none"

\* the angles setter failed on three rows after phases of two rows, or
\* the phases setter on two rows after angles of three rows
C17_Witness ==
    /\ pc = "failed"
    /\ angles.rows = 3
    /\ phases.rows = 2
    /\ grain_count \in {2, 3}

----------------------------------------------------------------------------
(* Properties of Reader.read (SpecRead) *)

\* the three components of a spacing are equal
ThreeEqual(v) == v[1] = v[2] /\ v[2] = v[3]

\* the spacing setter was called and raised: the origin, set just before
\* it, is set and the dataset of the spacing was found
SpacingSetterFailed == pc = "failed" /\ origin # <<>> /\ args.missing = "none"

\* C18: the spacing setter, called with a triple whose components are not
\* all equal, ends with ValueError (non-cubic cells) and the spacing of
\* the model stays unset; called with three equal components it sets the
\* spacing to the triple and read returns the model.
C18_CubicSpacing ==
    /\ SpacingSetterFailed =>
          /\ err = "ValueError"
          /\ ~ThreeEqual(args.spacing)
          /\ spacing = <<>>
    /\ pc = "model" => ThreeEqual(args.spacing) /\ spacing = args.spacing

\* the setter raised on the spacing 1, 1, 0.5, whose first two components
\* are equal
C18_Witness ==
    /\ SpacingSetterFailed
    /\ args.spacing = <<Unit, Unit, 5>>
    /\ err = "ValueError"
    /\ spacing = <<>>
    /\ dimensions # <<>>

\* the sources of the run are valid apart from dim: every dataset is in
\* the file, orientations and phases have as many rows, the spacing is
\* cubic and the declarations pass the checks of the builder
ValidSources ==
    /\ args.missing = "none"
    /\ ThreeEqual(args.spacing)
    /\ args.angles.found
    /\ args.phases.found
    /\ args.angles.rows = args.phases.rows
    /\ CheckCelldataArgs(values) = "none"

\* C19: with valid sources, among them a dataset of orientations, read
\* fails exactly when dim is not 1, 2 or 3: for dim = 1, 2 and 3 it does
\* not fail, for any other dim it does not get past the dim setter.
C19_FailsByDimOnly ==
    ValidSources =>
        /\ args.dim \in {1, 2, 3} => pc # "failed"
        /\ args.dim \notin {1, 2, 3} => pc \in {"read_dim", "failed"}

\* C24: after read has returned the model of a run whose file has the
\* dataset of the orientations, Data.angles is a table of one column for
\* dim = 2 and of the three columns of the dataset for dim = 3, and of one
\* column for a 1-D dataset; it has the rows of the dataset, less the first
\* if the first line is clipped.
C24_OrientationTable ==
    (pc = "model" /\ args.angles.found) =>
        /\ angles.isArray
        /\ angles.cols = IF args.angles.ndim = 1 \/ dim = 2 THEN 1 ELSE 3
        /\ angles.rows = IF args.clip THEN args.angles.rows - 1 ELSE args.angles.rows

----------------------------------------------------------------------------
(* Properties of the lookups of Reader.read (SpecLookup) *)

\* the paths of the mandatory sources for which the file has no dataset:
\* the geometry, the first path of the cell data, and the paths of the
\* orientations and of the phases if they are given
MissingSources ==
    {args.geo[k] : k \in {x \in {"dimensions", "origin", "spacing"} :
                            args.missing = x /\ ~IsRootOrEmpty(args.geo[x])}}
      \cup {values.paths[i] : i \in {j \in 1..Len(values.paths) :
                                      j = 1 /\ args.missing = "celldata"}}
      \cup {s.path : s \in {t \in {args.angles, args.phases} :
                              ~IsRootOrEmpty(t.path) /\ ~t.found}}

\* C21: read does not return a model when the file lacks the dataset of a
\* mandatory source, and Hdf2Mic_HDF5DatasetNotFoundError is raised for
\* the path that was looked up last, which is one the file lacks.
C21_MissingSourceFails ==
    /\ pc = "model" => MissingSources = {}
    /\ (pc = "failed" /\ err = "Hdf2Mic_HDF5DatasetNotFoundError")
          => /\ queried # <<>>
             /\ queried[Len(queried)] \in MissingSources \cup {<<>>}

\* C22: no path handed to self._f.get is the root or empty.
C22_AbsentPathNotQueried ==
    \A i \in 1..Len(queried) : ~IsRootOrEmpty(queried[i])

\* the time the text of the run and the file stand for: the number, the
\* first element of the dataset of a path, or None
ExpectedTime ==
    IF IsNumberText(args.time.text) THEN NumberOfText(args.time.text)
    ELSE IF /\ args.time.text # <<>>
            /\ Head(args.time.text) = "/"
            /\ args.time.text # <<"/">>
            /\ args.time.result \in {"vector", "scalar"}
         THEN args.time.value
         ELSE -1

\* read ended in the time setter: the dim is set, the path of the time is
\* the only one looked up and no setter behind it has run
FailedInTime ==
    /\ pc = "failed"
    /\ dim # 0
    /\ ~IsRootOrEmpty(args.time.text)
    /\ queried = <<args.time.text>>
    /\ err \in {"IndexError", "AttributeError"}

\* C23: once the time setter has run the time of the model is the number
\* the text stands for, else the value of the dataset at the path, else
\* None; and read never ends in the time setter.
C23_TimeNeverFails ==
    /\ ~FailedInTime
    /\ pc \in {"read_angles", "read_phases", "read", "built", "model"}
          => time = ExpectedTime

----------------------------------------------------------------------------
(* Properties of the substitutions of the tag engine (SpecNested) *)

\* the pairs of a tag and its replacement in the order write hands them to
\* _replace: the cells of the axes, the spacing, the tags of the attributes
TagPairs ==
    [i \in 1..dim |-> <<DRI_TAG_CELLS[i], StrOfNat(dimensions[i] - 1)>>]
    \o << <<DRI_TAG_SPACING, NumberText(spacing[1])>> >>
    \o (IF f_vtk # <<>>
        THEN [i \in 1..Len(celldata) |->
                <<celldata[i].tag, UserReplacement(celldata[i], f_vtk)>>]
        ELSE <<>>)

\* text with every tag of pairs replaced at once: where a tag begins in text
\* its replacement is put, and the replacement is not looked at again
RECURSIVE Simultaneous(_, _)
Simultaneous(text, pairs) ==
    IF text = <<>> THEN <<>>
    ELSE LET hits == {k \in 1..Len(pairs) :
                         pairs[k][1] # <<>> /\ OccursAt(text, pairs[k][1], 1)}
         IN  IF hits = {}
             THEN <<Head(text)>> \o Simultaneous(Tail(text), pairs)
             ELSE LET k == CHOOSE h \in hits : \A j \in hits : h <= j
                  IN  pairs[k][2]
                        \o Simultaneous(SubSeq(text, Len(pairs[k][1]) + 1, Len(text)),
                                        pairs)

\* the tag engine has saved the driving file
DriSaved == pc \in {"dri_exit", "dri_done"}

\* C30: the driving file the tag engine saves is the template with all tags
\* replaced at once: no text put in for a tag is changed by the replacement
\* of a later tag.
C30_SimultaneousReplacement ==
    DriSaved => dri_file = Simultaneous(JoinPieces(tpl_in), TagPairs)

----------------------------------------------------------------------------
(* Properties of the file objects of the VTK writer (SpecMain) *)

\* the file objects that are open
OpenHandles == {i \in 1..Len(handles) : handles[i].open}

IsPrefix(s, t) == Len(s) <= Len(t) /\ SubSeq(t, 1, Len(s)) = s

\* the first file object, and no other, was opened with 'w'; no file object
\* but the last is open; the file of a writer that has begun to write
\* starts with the header; a writer that has left its with-statement has
\* no open file object
HandlesInOrder ==
    /\ \A i \in 1..Len(handles) : handles[i].mode = "w" <=> i = 1
    /\ OpenHandles \subseteq {Len(handles)}
    /\ (Running("vtk") /\ pc \in {"vtk_nonfield", "vtk_group", "vtk_array",
                                  "vtk_exit", "vtk_done"})
          => IsPrefix(FileHeader, vtk_file)
    /\ (handles # <<>> /\ pc \in {"vtk_done", "failed", "main", "done"})
          => OpenHandles = {}

\* a step of the writer: the file is emptied when the first file object is
\* opened and only then, a file that has been opened only grows at its end,
\* every write has an open file object, and the file object closed on exit
\* is the last one
HandleStep ==
    /\ handles = <<>> /\ handles' # <<>> =>
          vtk_file' = <<>> /\ handles' = <<Opened("w")>>
    /\ handles # <<>> =>
          /\ IsPrefix(vtk_file, vtk_file')
          /\ IsPrefix([i \in 1..Len(handles) |-> handles[i].mode],
                      [i \in 1..Len(handles') |-> handles'[i].mode])
    /\ vtk_file' # vtk_file => OpenHandles' = {Len(handles')}
    /\ (pc = "vtk_exit" /\ pc' = "vtk_done") =>
          /\ OpenHandles = {Len(handles)}
          /\ handles' = Closed(handles)

\* C29: while the grid file is written it is truncated once, when the
\* context of the writer is entered; every later file object is opened for
\* appending after the one before it was closed, so one file object at most
\* is open; the file is its header followed by the blocks in the order they
\* were written, none of them overwritten; and the file object that is open
\* at the end is the one the exit of the context closes.
C29_AppendOrdered == []HandlesInOrder /\ [][HandleStep]_vars

\* a run has left the writer after one attribute and a FIELD of one array:
\* four file objects, all closed, over a file that existed before
C29_Witness ==
    /\ Running("vtk")
    /\ pc = "vtk_done"
    /\ args.stale
    /\ Len(handles) = 4
    /\ OpenHandles = {}
    /\ Len(vtk_file) > Len(FileHeader)

----------------------------------------------------------------------------
(* Properties of the conversions of Reader.read (SpecConvert) *)

\* the array of the tuple is the array read for its declaration or, for
\* "euler" in a run with rotate, that array with every cell rotated
StoredAsRead(tup) ==
    \E i \in 1..Len(values.paths) :
        /\ values.dataNames[i] = tup.dataName
        /\ IF args.rotate /\ tup.dataName = EulerName
           THEN tup.array \in RotatedArray(Dataset(values.paths[i]))
           ELSE tup.array = Dataset(values.paths[i])

\* the group_angles setter has set the orientations of the grains
AnglesRead == pc \in {"read_phases", "read", "built", "model"}

----------------------------------------------------------------------------
(* Properties of rotMat (SpecRotate) *)

\* C27: whatever the sign and the magnitude of the angles handed to rotate,
\* every angle of eulerRad, from which the rotation matrices are built,
\* is in [0, 360) degrees.
C27_ReducedIntoFullTurn ==
    pc = "rotate_matrix" =>
        \A i \in 1..3 : 0 <= eulerRad[i] /\ eulerRad[i] < 360

\* the middle angle of the triple is neither 0 nor 180 degrees nor one of
\* these plus whole turns
AwayFromDegenerate(v) == v[2] % 180 # 0

\* rotate(rotate(v, True), False) has returned
RoundTripDone == pc = "rotated" /\ ~toMICRESS

\* C26: for every triple v whose middle angle is away from 0 and 180
\* degrees, rotate(rotate(v, True), False) returns the angles of v.
C26_RoundTrip ==
    (RoundTripDone /\ AwayFromDegenerate(orientation)) => rotVal = orientation

====
